---- MODULE Spec2Model ----
(***************************************************************************)
(* CryptoSuite: the operation registry (index.js), the transforms the     *)
(* recipes of this development use (cipher.js, text.js, hash.js,           *)
(* encoding.js) and the recipe executor of app.js with its two modes,     *)
(* run-to-completion (Bake) and single-step (Step).                        *)
(*                                                                         *)
(* Text is a sequence of character codes; an error message is the text the *)
(* code builds.  A JavaScript value is a record tagged with its type.      *)
(***************************************************************************)
EXTENDS Integers, Sequences, FiniteSets, TLC

VARIABLES
  recipe,            \* app.js: let recipe = []
  currentStepIndex,  \* app.js: let currentStepIndex = 0
  inputVal,          \* $('input').value
  outputVal,         \* $('output').value
  frames,            \* invocations suspended at an await of an asynchronous transform
  timers,            \* pending setTimeout callbacks of executeStepByStep
  afterFail,         \* history: the last single-step event was a failed step
  afterEnd,          \* history: the last single-step event executed the last step of the recipe
  last,              \* history: what the handler that ran last did and reported
  call,              \* the call under test of a pure function (registry, transforms)
  ret                \* its result

vars == <<recipe, currentStepIndex, inputVal, outputVal, frames, timers,
          afterFail, afterEnd, last, call, ret>>

(***************************************************************************)
(* Bounds of the model.                                                    *)
(***************************************************************************)
MaxRecipeLen == 2
MaxInFlight == 2
MaxTimers == 1

(***************************************************************************)
(* Text constants: the literal strings of the source, as character codes.  *)
(***************************************************************************)
\* 'Unknown operation: '
TxtUnknownOperation ==
  <<85, 110, 107, 110, 111, 119, 110, 32, 111, 112, 101, 114, 97, 116, 105, 111, 110, 58, 32>>
\* 'Parameter "'
TxtParameterOpen ==
  <<80, 97, 114, 97, 109, 101, 116, 101, 114, 32, 34>>
\* '" is required'
TxtIsRequired ==
  <<34, 32, 105, 115, 32, 114, 101, 113, 117, 105, 114, 101, 100>>
\* 'Shift must be between 1 and 25'
TxtShiftRange ==
  <<83, 104, 105, 102, 116, 32, 109, 117, 115, 116, 32, 98, 101, 32, 98, 101, 116, 119, 101, 101, 110, 32, 49, 32, 97, 110, 100, 32, 50, 53>>
\* 'op.fn is not a function'
TxtNotAFunction ==
  <<111, 112, 46, 102, 110, 32, 105, 115, 32, 110, 111, 116, 32, 97, 32, 102, 117, 110, 99, 116, 105, 111, 110>>
\* 'SHA-256 hashing failed'
TxtShaFailed ==
  <<83, 72, 65, 45, 50, 53, 54, 32, 104, 97, 115, 104, 105, 110, 103, 32, 102, 97, 105, 108, 101, 100>>
\* 'Step '
TxtStep ==
  <<83, 116, 101, 112, 32>>
\* ': '
TxtColonSpace ==
  <<58, 32>>
\* 'Error: '
TxtErrorPrefix ==
  <<69, 114, 114, 111, 114, 58, 32>>
\* 'undefined'
TxtUndefined ==
  <<117, 110, 100, 101, 102, 105, 110, 101, 100>>
\* 'Shift Amount'
TxtShiftAmount ==
  <<83, 104, 105, 102, 116, 32, 65, 109, 111, 117, 110, 116>>
\* 'Separator'
TxtSeparator ==
  <<83, 101, 112, 97, 114, 97, 116, 111, 114>>
\* 'Recipe must be an array'
TxtMustBeArray ==
  <<82, 101, 99, 105, 112, 101, 32, 109, 117, 115, 116, 32, 98, 101, 32, 97, 110, 32, 97, 114, 114, 97, 121>>
\* ' is missing operation'
TxtMissingOperation ==
  <<32, 105, 115, 32, 109, 105, 115, 115, 105, 110, 103, 32, 111, 112, 101, 114, 97, 116, 105, 111, 110>>
\* ': Unknown operation "'
TxtUnknownOpQuoted ==
  <<58, 32, 85, 110, 107, 110, 111, 119, 110, 32, 111, 112, 101, 114, 97, 116, 105, 111, 110, 32, 34>>
\* '"'
TxtQuote ==
  <<34>>
\* "Cannot read properties of null (reading 'op')"
TxtNullOp ==
  <<67, 97, 110, 110, 111, 116, 32, 114, 101, 97, 100, 32, 112, 114, 111, 112, 101, 114, 116, 105, 101, 115, 32, 111, 102, 32, 110, 117, 108, 108, 32, 40, 114, 101, 97, 100, 105, 110, 103, 32, 39, 111, 112, 39, 41>>
\* 'Hi'
TxtHi ==
  <<72, 105>>
\* 'ABCDEFGHIJKLMNOPQRSTUVWXYZabcdefghijklmnopqrstuvwxyz0123456789+/'
TxtB64Alphabet ==
  <<65, 66, 67, 68, 69, 70, 71, 72, 73, 74, 75, 76, 77, 78, 79, 80, 81, 82, 83, 84, 85, 86, 87, 88, 89, 90, 97, 98, 99, 100, 101, 102, 103, 104, 105, 106, 107, 108, 109, 110, 111, 112, 113, 114, 115, 116, 117, 118, 119, 120, 121, 122, 48, 49, 50, 51, 52, 53, 54, 55, 56, 57, 43, 47>>
\* '0123456789abcdef'
TxtHexDigits ==
  <<48, 49, 50, 51, 52, 53, 54, 55, 56, 57, 97, 98, 99, 100, 101, 102>>

(***************************************************************************)
(* JavaScript values and the coercions the code applies to them.           *)
(***************************************************************************)
Str(s) == [t |-> "str", s |-> s, n |-> 0]
Num(n) == [t |-> "num", s |-> <<>>, n |-> n]
Undef == [t |-> "undef", s |-> <<>>, n |-> 0]

\* !v is false: undefined, the empty string and the number 0 are falsy.
Truthy(v) ==
  CASE v.t = "str" -> v.s # <<>>
    [] v.t = "num" -> v.n # 0
    [] OTHER -> FALSE

RECURSIVE Digits(_)
Digits(n) == IF n < 10 THEN <<48 + n>> ELSE Digits(n \div 10) \o <<48 + (n % 10)>>

\* String(v)
ToStr(v) ==
  CASE v.t = "str" -> v.s
    [] v.t = "num" -> IF v.n < 0 THEN <<45>> \o Digits(0 - v.n) ELSE Digits(v.n)
    [] OTHER -> TxtUndefined

IsDigit(c) == c >= 48 /\ c <= 57
IsWhite(c) == c \in {9, 10, 11, 12, 13, 32}
IsUpper(c) == c >= 65 /\ c <= 90
IsLower(c) == c >= 97 /\ c <= 122
IsLetter(c) == IsUpper(c) \/ IsLower(c)

RECURSIVE SkipWhite(_)
SkipWhite(s) == IF s # <<>> /\ IsWhite(Head(s)) THEN SkipWhite(Tail(s)) ELSE s

RECURSIVE ReadDigits(_, _, _)
ReadDigits(s, acc, any) ==
  IF s # <<>> /\ IsDigit(Head(s))
    THEN ReadDigits(Tail(s), acc * 10 + (Head(s) - 48), TRUE)
    ELSE [nan |-> ~any, n |-> acc]

\* parseInt(v) without a radix, on decimal text: leading white space, an
\* optional sign, then the longest prefix of digits; NaN when there is none.
ParseInt(v) ==
  LET s == SkipWhite(ToStr(v))
      neg == s # <<>> /\ Head(s) = 45
      body == IF s # <<>> /\ Head(s) \in {43, 45} THEN Tail(s) ELSE s
      r == ReadDigits(body, 0, FALSE)
  IN  [nan |-> r.nan, n |-> IF neg THEN 0 - r.n ELSE r.n]

(***************************************************************************)
(* Results of a transform and of execute.                                  *)
(*   st = "ok": v is the text returned; "err": msg is error.message;       *)
(*   "pending": the promise is not settled yet (v is the text it awaits on)*)
(*   checked: the required-parameter loop ran; called: op.fn was invoked.  *)
(***************************************************************************)
Ok(v) == [st |-> "ok", v |-> v, msg |-> <<>>]
Err(m) == [st |-> "err", v |-> <<>>, msg |-> m]
Pending(v) == [st |-> "pending", v |-> v, msg |-> <<>>]

NoParams == [shift |-> Undef, separator |-> Undef]

(***************************************************************************)
(* Transforms.                                                             *)
(***************************************************************************)
RECURSIVE MapText(_, _)
MapText(F(_), s) == IF s = <<>> THEN <<>> ELSE <<F(Head(s))>> \o MapText(F, Tail(s))

ShiftLetter(c, k) ==
  IF IsLetter(c)
    THEN LET base == IF c <= 90 THEN 65 ELSE 97 IN base + ((c - base + k) % 26)
    ELSE c

\* parseInt(params.shift) || 3
ShiftOf(params) ==
  LET p == ParseInt(params.shift) IN IF p.nan \/ p.n = 0 THEN 3 ELSE p.n

CaesarFn(input, params) ==
  LET shift == ShiftOf(params)
      F(c) == ShiftLetter(c, shift)
  IN  IF shift < 1 \/ shift > 25 THEN Err(TxtShiftRange) ELSE Ok(MapText(F, input))

\* CaesarDecryptFn moving the letters forward, as caesar does
CaesarDecryptFnForward(input, params) ==
  LET shift == ShiftOf(params)
      F(c) == ShiftLetter(c, shift)
  IN  IF shift < 1 \/ shift > 25 THEN Err(TxtShiftRange) ELSE Ok(MapText(F, input))

CaesarDecryptFn(input, params) ==
  LET shift == ShiftOf(params)
      F(c) == ShiftLetter(c, 26 - shift)
  IN  IF shift < 1 \/ shift > 25 THEN Err(TxtShiftRange) ELSE Ok(MapText(F, input))

RECURSIVE Reverse(_)
Reverse(s) == IF s = <<>> THEN <<>> ELSE Reverse(Tail(s)) \o <<Head(s)>>

ReverseFn(input) == Ok(Reverse(input))

\* new TextEncoder().encode(s) / unescape(encodeURIComponent(s)): UTF-8
RECURSIVE Utf8(_)
Utf8(s) ==
  IF s = <<>> THEN <<>>
  ELSE LET c == Head(s)
           b == IF c < 128 THEN <<c>>
                ELSE IF c < 2048 THEN <<192 + (c \div 64), 128 + (c % 64)>>
                ELSE <<224 + (c \div 4096), 128 + ((c \div 64) % 64), 128 + (c % 64)>>
       IN  b \o Utf8(Tail(s))

B64Char(i) == TxtB64Alphabet[i + 1]

\* btoa
RECURSIVE Btoa(_)
Btoa(b) ==
  IF b = <<>> THEN <<>>
  ELSE IF Len(b) = 1
    THEN <<B64Char(b[1] \div 4), B64Char((b[1] % 4) * 16), 61, 61>>
  ELSE IF Len(b) = 2
    THEN LET n == b[1] * 256 + b[2]
         IN  <<B64Char(n \div 1024), B64Char((n \div 16) % 64), B64Char((n % 16) * 4), 61>>
  ELSE LET n == b[1] * 65536 + b[2] * 256 + b[3]
       IN  <<B64Char(n \div 262144), B64Char((n \div 4096) % 64),
             B64Char((n \div 64) % 64), B64Char(n % 64)>>
           \o Btoa(SubSeq(b, 4, Len(b)))

ToBase64Fn(input) == Ok(Btoa(Utf8(input)))

HexByte(b) == <<TxtHexDigits[(b \div 16) + 1], TxtHexDigits[(b % 16) + 1]>>

RECURSIVE JoinHex(_, _)
JoinHex(bytes, sep) ==
  IF bytes = <<>> THEN <<>>
  ELSE IF Len(bytes) = 1 THEN HexByte(bytes[1])
  ELSE HexByte(bytes[1]) \o sep \o JoinHex(Tail(bytes), sep)

ToHexFn(input, params) ==
  LET separator == IF Truthy(params.separator) THEN ToStr(params.separator) ELSE <<>>
  IN  Ok(JoinHex(Utf8(input), separator))

\* crypto.subtle.digest('SHA-256', data) is the platform's primitive, not code
\* of the repository: a two-byte stand-in that is a function of the data.
RECURSIVE SumBytes(_)
SumBytes(b) == IF b = <<>> THEN 0 ELSE Head(b) + SumBytes(Tail(b))

PlatformDigest(data) == <<Len(data) % 256, SumBytes(data) % 256>>

\* sha256.fn once the digest settles: hex of the digest, or the error of the catch
Sha256Settled(input, digestOk) ==
  IF digestOk THEN Ok(JoinHex(PlatformDigest(Utf8(input)), <<>>)) ELSE Err(TxtShaFailed)

\* sha256.fn up to its await
Sha256Fn(input) == Pending(input)

(***************************************************************************)
(* The registry: const operations = {...}, a plain object, so that         *)
(* operations[key] also finds what Object.prototype defines.               *)
(***************************************************************************)
OwnKeys == {"toBase64", "reverse", "caesar", "caesarDecrypt", "sha256", "toHex"}
InheritedKeys == {"constructor"}
OtherKeys == {"nope"}
Keys == OwnKeys \cup InheritedKeys \cup OtherKeys

IdText(key) ==
  CASE key = "toBase64" -> <<116, 111, 66, 97, 115, 101, 54, 52>>
    [] key = "reverse" -> <<114, 101, 118, 101, 114, 115, 101>>
    [] key = "caesar" -> <<99, 97, 101, 115, 97, 114>>
    [] key = "caesarDecrypt" -> <<99, 97, 101, 115, 97, 114, 68, 101, 99, 114, 121, 112, 116>>
    [] key = "sha256" -> <<115, 104, 97, 50, 53, 54>>
    [] key = "toHex" -> <<116, 111, 72, 101, 120>>
    [] key = "nope" -> <<110, 111, 112, 101>>
    [] key = "constructor" -> <<99, 111, 110, 115, 116, 114, 117, 99, 116, 111, 114>>
    [] OTHER -> <<>>

ShiftParam ==
  [name |-> "shift", label |-> TxtShiftAmount, required |-> TRUE, default |-> Str(<<51>>)]
SeparatorParam ==
  [name |-> "separator", label |-> TxtSeparator, required |-> FALSE, default |-> Str(<<>>)]

\* op.params of an operation of the catalog
ParamsOf(key) ==
  CASE key \in {"caesar", "caesarDecrypt"} -> <<ShiftParam>>
    [] key = "toHex" -> <<SeparatorParam>>
    [] OTHER -> <<>>

\* operations[key]: an operation, a member of Object.prototype, or undefined
Get(key) ==
  IF key \in OwnKeys THEN "operation"
  ELSE IF key \in InheritedKeys THEN "inherited"
  ELSE "undefined"

\* op.fn(input, params)
Transform(key, input, params) ==
  CASE key = "toBase64" -> ToBase64Fn(input)
    [] key = "reverse" -> ReverseFn(input)
    [] key = "caesar" -> CaesarFn(input, params)
    [] key = "caesarDecrypt" -> CaesarDecryptFn(input, params)
    [] key = "sha256" -> Sha256Fn(input)
    [] key = "toHex" -> ToHexFn(input, params)
    [] OTHER -> Err(TxtNotAFunction)

\* the required-parameter loop of execute: the first declared parameter that
\* is required and falsy in params, or 0
RECURSIVE FirstMissing(_, _, _)
FirstMissing(specs, params, i) ==
  IF i > Len(specs) THEN 0
  ELSE IF specs[i].required /\ ~Truthy(params[specs[i].name]) THEN i
  ELSE FirstMissing(specs, params, i + 1)

MissingMessage(label) == TxtParameterOpen \o label \o TxtIsRequired
UnknownMessage(key) == TxtUnknownOperation \o IdText(key)

\* CryptoOperations.execute(key, input, params) up to the await of op.fn
Execute(key, input, params) ==
  IF Get(key) = "undefined"
    THEN Err(UnknownMessage(key)) @@ [checked |-> FALSE, called |-> FALSE]
  ELSE IF Get(key) = "inherited"
    THEN Err(TxtNotAFunction) @@ [checked |-> FALSE, called |-> FALSE]
  ELSE LET specs == ParamsOf(key)
           m == FirstMissing(specs, params, 1)
       IN  IF m # 0
             THEN Err(MissingMessage(specs[m].label)) @@ [checked |-> TRUE, called |-> FALSE]
             ELSE Transform(key, input, params) @@ [checked |-> TRUE, called |-> TRUE]

(***************************************************************************)
(* Calls of the registry and of the transforms, taken one at a time.       *)
(***************************************************************************)
TextPool == {<<>>, TxtHi, <<97, 90, 33>>}

ShiftPool ==
  {Undef, Str(<<>>), Str(<<51>>), Num(3), Num(1), Num(25), Num(0), Str(<<48>>),
   Num(26), Num(30), Str(<<51, 48>>), Num(0 - 5), Str(<<45, 53>>),
   Str(<<97, 98, 99>>), Str(<<49, 50, 97, 98, 99>>), Str(<<32, 55>>)}

SeparatorPool == {Undef, Str(<<58>>)}

ParamsPool == [shift : ShiftPool, separator : SeparatorPool]

NoCall == [fn |-> "none", key |-> "", input |-> <<>>, params |-> NoParams]
NoRet == [st |-> "none", v |-> <<>>, msg |-> <<>>, checked |-> FALSE, called |-> FALSE]

ExecCalls == [fn : {"execute"}, key : Keys, input : TextPool, params : ParamsPool]
CipherCalls == [fn : {"caesar", "caesarDecrypt"}, key : {""}, input : TextPool, params : ParamsPool]

(***************************************************************************)
(* The session of app.js: recipe management.                               *)
(***************************************************************************)
ParamNames == {"shift", "separator"}

\* addOperation: params[param.name] = param.default || ''
DefaultParams(key) ==
  LET specs == ParamsOf(key)
      Of(n) == IF \E i \in 1..Len(specs) : specs[i].name = n
                 THEN LET i == CHOOSE j \in 1..Len(specs) : specs[j].name = n
                      IN  IF Truthy(specs[i].default) THEN specs[i].default ELSE Str(<<>>)
                 ELSE Undef
  IN  [n \in ParamNames |-> Of(n)]

\* what the edit form of a step yields: one value per declared parameter
\* (a number input gives parseFloat(value) or '')
EditChoices(key) ==
  IF \E i \in 1..Len(ParamsOf(key)) : ParamsOf(key)[i].name = "shift"
    THEN {[NoParams EXCEPT !.shift = Num(30)], [NoParams EXCEPT !.shift = Str(<<>>)]}
    ELSE {NoParams}

\* the operations the sessions add from the operation list
AddKeys == {"reverse", "caesar", "nope"}
BakeAddKeys == {"toBase64", "reverse", "sha256"}
FailAddKeys == {"caesar", "sha256"}
StepAddKeys == {"caesar", "sha256"}
InputPool == {<<>>, TxtHi}

\* the JSON values a recipe file may hold
Item(op) == [null |-> FALSE, op |-> op, params |-> NoParams]
NullItem == [null |-> TRUE, op |-> "", params |-> NoParams]
NoData == [isArray |-> FALSE, items |-> <<>>]
ArrayOf(items) == [isArray |-> TRUE, items |-> items]

FailLoadPool == {ArrayOf(<<Item("constructor")>>)}

LoadPool ==
  {NoData, ArrayOf(<<>>), ArrayOf(<<Item("reverse")>>), ArrayOf(<<Item("nope")>>),
   ArrayOf(<<Item("constructor")>>), ArrayOf(<<Item("")>>), ArrayOf(<<NullItem>>),
   ArrayOf(<<Item("reverse"), Item("nope")>>)}

\* the history of the handler that ran last (executor and load events only);
\* started: the recipe as it stood when the run-to-completion began
NoLast ==
  [ev |-> "none", st |-> "", first |-> <<>>, val |-> <<>>, error |-> <<>>,
   failStep |-> 0, failMsg |-> <<>>, log |-> <<>>, calls |-> <<>>, clean |-> FALSE,
   began |-> 0, ran |-> 0, after |-> 0, shown |-> 0, field |-> <<>>,
   pf |-> FALSE, pe |-> FALSE, resumed |-> FALSE, data |-> NoData, started |-> <<>>]

\* a recipe edit seen by the runs that are suspended
MarkDirty(fs) ==
  [k \in 1..Len(fs) |-> IF fs[k].kind = "bake" THEN [fs[k] EXCEPT !.dirty = TRUE] ELSE fs[k]]

RemoveAt(s, k) == SubSeq(s, 1, k - 1) \o SubSeq(s, k + 1, Len(s))
InsertAt(s, k, x) == SubSeq(s, 1, k - 1) \o <<x>> \o SubSeq(s, k, Len(s))

AddOperation(opKey) ==
  /\ Len(recipe) < MaxRecipeLen
  /\ IF Get(opKey) = "undefined"
       THEN UNCHANGED <<recipe, frames>>
       ELSE /\ recipe' = Append(recipe, [op |-> opKey, params |-> DefaultParams(opKey)])
            /\ frames' = MarkDirty(frames)
  /\ last' = NoLast
  /\ UNCHANGED <<currentStepIndex, inputVal, outputVal, timers, afterFail, afterEnd, call, ret>>

\* index ranges over the rendered steps and one position past them
RemoveOperation(index) ==
  /\ IF index < 0 \/ index >= Len(recipe)
       THEN UNCHANGED <<recipe, frames>>
       ELSE /\ recipe' = RemoveAt(recipe, index + 1)
            /\ frames' = MarkDirty(frames)
  /\ last' = NoLast
  /\ UNCHANGED <<currentStepIndex, inputVal, outputVal, timers, afterFail, afterEnd, call, ret>>

UpdateOperation(index, params) ==
  /\ IF index < 0 \/ index >= Len(recipe)
       THEN UNCHANGED <<recipe, frames>>
       ELSE /\ recipe' = [recipe EXCEPT ![index + 1].params = params]
            /\ frames' = MarkDirty(frames)
  /\ last' = NoLast
  /\ UNCHANGED <<currentStepIndex, inputVal, outputVal, timers, afterFail, afterEnd, call, ret>>

MoveOperation(fromIndex, toIndex) ==
  /\ IF \/ fromIndex < 0 \/ fromIndex >= Len(recipe)
        \/ toIndex < 0 \/ toIndex >= Len(recipe)
        \/ fromIndex = toIndex
       THEN UNCHANGED <<recipe, frames>>
       ELSE /\ recipe' = InsertAt(RemoveAt(recipe, fromIndex + 1), toIndex + 1,
                                  recipe[fromIndex + 1])
            /\ frames' = MarkDirty(frames)
  /\ last' = NoLast
  /\ UNCHANGED <<currentStepIndex, inputVal, outputVal, timers, afterFail, afterEnd, call, ret>>

ClearRecipe ==
  /\ IF Len(recipe) = 0
       THEN UNCHANGED <<recipe, currentStepIndex, frames>>
       ELSE /\ recipe' = <<>>
            /\ currentStepIndex' = 0
            /\ frames' = MarkDirty(frames)
  /\ last' = NoLast
  /\ UNCHANGED <<inputVal, outputVal, timers, afterFail, afterEnd, call, ret>>

(***************************************************************************)
(* validateRecipe and loadRecipe.                                          *)
(***************************************************************************)
StepPrefix(n) == TxtStep \o Digits(n)

\* validateRecipe(data): <<>> when it returns true, else error.message
RECURSIVE ValidateFrom(_, _)
ValidateFrom(items, i) ==
  IF i > Len(items) THEN <<>>
  ELSE IF items[i].null THEN TxtNullOp
  ELSE IF items[i].op = "" THEN StepPrefix(i) \o TxtMissingOperation
  ELSE IF Get(items[i].op) = "undefined"
    THEN StepPrefix(i) \o TxtUnknownOpQuoted \o IdText(items[i].op) \o TxtQuote
  ELSE ValidateFrom(items, i + 1)

ValidateRecipe(data) == IF ~data.isArray THEN TxtMustBeArray ELSE ValidateFrom(data.items, 1)

\* loadRecipe once readJSONFile has resolved with data
LoadRecipe(data) ==
  LET error == ValidateRecipe(data) IN
  /\ IF error = <<>>
       THEN /\ recipe' = [k \in 1..Len(data.items) |->
                            [op |-> data.items[k].op, params |-> data.items[k].params]]
            /\ currentStepIndex' = 0
            /\ frames' = MarkDirty(frames)
            /\ last' = [NoLast EXCEPT !.ev = "load", !.st = "ok", !.data = data]
       ELSE /\ UNCHANGED <<recipe, currentStepIndex, frames>>
            /\ last' = [NoLast EXCEPT !.ev = "load", !.st = "failed", !.error = error,
                                      !.data = data]
  /\ UNCHANGED <<inputVal, outputVal, timers, afterFail, afterEnd, call, ret>>

(***************************************************************************)
(* executeRecipe (Bake).  The loop runs without interruption until an      *)
(* asynchronous transform suspends it; the loop reads `recipe` again on    *)
(* every iteration.                                                        *)
(*   log: executionLog (params, inp, out: history of the step's parameters,*)
(*   of what it was given and of what it returned); calls: history of the  *)
(*   1-based steps whose fn was invoked.                                   *)
(***************************************************************************)
\* StepError reporting the loop index instead of the 1-based step
StepErrorZeroBased(n, msg) == StepPrefix(n - 1) \o TxtColonSpace \o msg

\* `Step ${i + 1}: ${error.message}`
StepError(n, msg) == StepPrefix(n) \o TxtColonSpace \o msg

NoStep == [op |-> "", params |-> NoParams]

Outcome(st, i, step, val, log, calls) ==
  [st |-> st, i |-> i, step |-> step, val |-> val, log |-> log, calls |-> calls,
   error |-> <<>>, failStep |-> 0, failMsg |-> <<>>]

RECURSIVE BakeLoop(_, _, _, _, _)
RECURSIVE BakeStep(_, _, _, _, _, _, _)

\* BakeStep handing the step's own input, not its result, to the next step
BakeStepStaleInput(rcp, i, step, arg, r, log, calls) ==
  CASE r.st = "err" ->
         [Outcome("failed", i, step, arg, log, calls) EXCEPT
            !.error = StepError(i + 1, r.msg), !.failStep = i + 1, !.failMsg = r.msg]
    [] r.st = "pending" -> Outcome("suspended", i, step, arg, log, calls)
    [] OTHER ->
         BakeLoop(rcp, i + 1, arg,
                  Append(log, [step |-> i + 1, op |-> step.op, params |-> step.params,
                               inp |-> arg, out |-> r.v]), calls)

\* the body of the loop once execute has returned r for step i (0-based)
BakeStep(rcp, i, step, arg, r, log, calls) ==
  CASE r.st = "err" ->
         [Outcome("failed", i, step, arg, log, calls) EXCEPT
            !.error = StepError(i + 1, r.msg), !.failStep = i + 1, !.failMsg = r.msg]
    [] r.st = "pending" -> Outcome("suspended", i, step, arg, log, calls)
    [] OTHER ->
         BakeLoop(rcp, i + 1, r.v,
                  Append(log, [step |-> i + 1, op |-> step.op, params |-> step.params,
                               inp |-> arg, out |-> r.v]), calls)

\* for (let i = ...; i < recipe.length; i++)
BakeLoop(rcp, i, result, log, calls) ==
  IF i >= Len(rcp) THEN Outcome("done", i, NoStep, result, log, calls)
  ELSE LET step == rcp[i + 1]
           r == Execute(step.op, result, step.params)
       IN  BakeStep(rcp, i, step, result, r, log,
                    IF r.called THEN Append(calls, i + 1) ELSE calls)

\* what the run does with the outcome o; rest: the other suspended invocations
BakeOutcome(o, first, dirty, rest, started) ==
  /\ CASE o.st = "suspended" ->
            /\ Len(rest) < MaxInFlight
            /\ frames' = Append(rest, [kind |-> "bake", i |-> o.i, step |-> o.step, arg |-> o.val,
                                        log |-> o.log, calls |-> o.calls, first |-> first,
                                        dirty |-> dirty, started |-> started])
            /\ last' = [NoLast EXCEPT !.ev = "bake", !.st = "suspended"]
            /\ UNCHANGED outputVal
       [] o.st = "done" ->
            /\ frames' = rest
            /\ outputVal' = o.val
            /\ last' = [NoLast EXCEPT !.ev = "bake", !.st = "done", !.first = first,
                                      !.val = o.val, !.log = o.log, !.calls = o.calls,
                                      !.clean = ~dirty, !.started = started]
       [] OTHER ->
            /\ frames' = rest
            /\ outputVal' = TxtErrorPrefix \o o.error
            /\ last' = [NoLast EXCEPT !.ev = "bake", !.st = "failed", !.first = first,
                                      !.error = o.error, !.failStep = o.failStep,
                                      !.failMsg = o.failMsg, !.log = o.log,
                                      !.calls = o.calls, !.clean = ~dirty,
                                      !.started = started]
  /\ UNCHANGED <<recipe, currentStepIndex, inputVal, timers, afterFail, afterEnd, call, ret>>

Bake ==
  IF inputVal = <<>> \/ Len(recipe) = 0
    THEN /\ last' = NoLast
         /\ UNCHANGED <<recipe, currentStepIndex, inputVal, outputVal, frames, timers,
                        afterFail, afterEnd, call, ret>>
    ELSE BakeOutcome(BakeLoop(recipe, 0, inputVal, <<>>, <<>>), inputVal, FALSE, frames, recipe)

\* the digest awaited by the suspended run frames[k] settles
BakeResume(k, digestOk) ==
  /\ k \in 1..Len(frames)
  /\ frames[k].kind = "bake"
  /\ LET f == frames[k]
         r == Sha256Settled(f.arg, digestOk)
     IN  BakeOutcome(BakeStep(recipe, f.i, f.step, f.arg, r, f.log, f.calls),
                     f.first, f.dirty, RemoveAt(frames, k), f.started)

(***************************************************************************)
(* executeStepByStep (Step).                                               *)
(***************************************************************************)
\* the step succeeded with text v: lines 210-230
StepSucceeded(v, obs, rest) ==
  LET after == currentStepIndex + 1 IN
  /\ outputVal' = v
  /\ currentStepIndex' = after
  /\ frames' = rest
  /\ afterFail' = (obs.resumed /\ afterFail)
  /\ IF after >= Len(recipe)
       THEN /\ timers < MaxTimers
            /\ timers' = timers + 1
            /\ afterEnd' = TRUE
       ELSE /\ timers' = timers
            /\ afterEnd' = (obs.resumed /\ afterEnd)
  /\ last' = [obs EXCEPT !.st = "ok", !.val = v, !.after = after,
                         !.shown = currentStepIndex + 1]

\* the catch: lines 232-236
StepFailed(msg, obs, rest) ==
  /\ outputVal' = TxtErrorPrefix \o msg
  /\ currentStepIndex' = 0
  /\ frames' = rest
  /\ afterFail' = TRUE
  /\ afterEnd' = (obs.resumed /\ afterEnd)
  /\ timers' = timers
  /\ last' = [obs EXCEPT !.st = "failed", !.error = msg, !.after = 0,
                         !.failStep = currentStepIndex + 1]

\* Step giving every step the input field, not the output of the step before
StepReadsField ==
  IF Len(recipe) = 0 \/ (currentStepIndex = 0 /\ inputVal = <<>>)
    THEN /\ last' = NoLast
         /\ UNCHANGED <<recipe, currentStepIndex, inputVal, outputVal, frames, timers,
                        afterFail, afterEnd, call, ret>>
  ELSE IF currentStepIndex >= Len(recipe)
    THEN /\ currentStepIndex' = 0
         /\ last' = NoLast
         /\ UNCHANGED <<recipe, inputVal, outputVal, frames, timers, afterFail, afterEnd,
                        call, ret>>
  ELSE LET input == inputVal
           step == recipe[currentStepIndex + 1]
           r == Execute(step.op, input, step.params)
           obs == [NoLast EXCEPT !.ev = "step", !.began = currentStepIndex,
                                 !.ran = currentStepIndex, !.first = input,
                                 !.field = inputVal, !.pf = afterFail, !.pe = afterEnd]
       IN  /\ CASE r.st = "ok" -> StepSucceeded(r.v, obs, frames)
                [] r.st = "err" -> StepFailed(r.msg, obs, frames)
                [] OTHER ->
                     /\ Len(frames) < MaxInFlight
                     /\ frames' = Append(frames,
                          [kind |-> "step", i |-> currentStepIndex, step |-> step,
                           arg |-> input, log |-> <<>>, calls |-> <<>>, first |-> <<>>,
                           dirty |-> FALSE, started |-> <<>>])
                     /\ outputVal' = input
                     /\ afterFail' = FALSE
                     /\ afterEnd' = FALSE
                     /\ last' = [obs EXCEPT !.st = "suspended"]
                     /\ UNCHANGED <<currentStepIndex, timers>>
           /\ UNCHANGED <<recipe, inputVal, call, ret>>


Step ==
  IF Len(recipe) = 0 \/ (currentStepIndex = 0 /\ inputVal = <<>>)
    THEN /\ last' = NoLast
         /\ UNCHANGED <<recipe, currentStepIndex, inputVal, outputVal, frames, timers,
                        afterFail, afterEnd, call, ret>>
  ELSE IF currentStepIndex >= Len(recipe)
    THEN /\ currentStepIndex' = 0
         /\ last' = NoLast
         /\ UNCHANGED <<recipe, inputVal, outputVal, frames, timers, afterFail, afterEnd,
                        call, ret>>
  ELSE LET input == IF currentStepIndex = 0 THEN inputVal ELSE outputVal
           step == recipe[currentStepIndex + 1]
           r == Execute(step.op, input, step.params)
           obs == [NoLast EXCEPT !.ev = "step", !.began = currentStepIndex,
                                 !.ran = currentStepIndex, !.first = input,
                                 !.field = inputVal, !.pf = afterFail, !.pe = afterEnd]
       IN  /\ CASE r.st = "ok" -> StepSucceeded(r.v, obs, frames)
                [] r.st = "err" -> StepFailed(r.msg, obs, frames)
                [] OTHER ->
                     /\ Len(frames) < MaxInFlight
                     /\ frames' = Append(frames,
                          [kind |-> "step", i |-> currentStepIndex, step |-> step,
                           arg |-> input, log |-> <<>>, calls |-> <<>>, first |-> <<>>,
                           dirty |-> FALSE, started |-> <<>>])
                     /\ outputVal' = input
                     /\ afterFail' = FALSE
                     /\ afterEnd' = FALSE
                     /\ last' = [obs EXCEPT !.st = "suspended"]
                     /\ UNCHANGED <<currentStepIndex, timers>>
           /\ UNCHANGED <<recipe, inputVal, call, ret>>

\* the digest awaited by the suspended single-step invocation frames[k] settles
StepResume(k, digestOk) ==
  /\ k \in 1..Len(frames)
  /\ frames[k].kind = "step"
  /\ LET f == frames[k]
         r == Sha256Settled(f.arg, digestOk)
         obs == [NoLast EXCEPT !.ev = "step", !.began = f.i, !.ran = f.i,
                               !.first = f.arg, !.resumed = TRUE]
     IN  IF r.st = "ok" THEN StepSucceeded(r.v, obs, RemoveAt(frames, k))
                        ELSE StepFailed(r.msg, obs, RemoveAt(frames, k))
  /\ UNCHANGED <<recipe, inputVal, call, ret>>

\* setTimeout(() => { currentStepIndex = 0; }, 2000)
TimerFires ==
  /\ timers > 0
  /\ timers' = timers - 1
  /\ currentStepIndex' = 0
  /\ last' = NoLast
  /\ UNCHANGED <<recipe, inputVal, outputVal, frames, afterFail, afterEnd, call, ret>>

(***************************************************************************)
(* The handlers of the input and output fields.                            *)
(***************************************************************************)
InputEdited(text) ==
  /\ inputVal' = text
  /\ currentStepIndex' = 0
  /\ last' = NoLast
  /\ UNCHANGED <<recipe, outputVal, frames, timers, afterFail, afterEnd, call, ret>>

ClearInput ==
  /\ inputVal' = <<>>
  /\ currentStepIndex' = 0
  /\ last' = NoLast
  /\ UNCHANGED <<recipe, outputVal, frames, timers, afterFail, afterEnd, call, ret>>

PasteInput(text) ==
  /\ inputVal' = text
  /\ currentStepIndex' = 0
  /\ last' = NoLast
  /\ UNCHANGED <<recipe, outputVal, frames, timers, afterFail, afterEnd, call, ret>>

ClearOutput ==
  /\ outputVal' = <<>>
  /\ currentStepIndex' = 0
  /\ last' = NoLast
  /\ UNCHANGED <<recipe, inputVal, frames, timers, afterFail, afterEnd, call, ret>>

(***************************************************************************)
(* Initial states.                                                         *)
(***************************************************************************)
SessionInit ==
  /\ recipe = <<>>
  /\ currentStepIndex = 0
  /\ inputVal = <<>>
  /\ outputVal = <<>>
  /\ frames = <<>>
  /\ timers = 0
  /\ afterFail = FALSE
  /\ afterEnd = FALSE
  /\ last = NoLast

Init ==
  /\ SessionInit
  /\ call = NoCall
  /\ ret = NoRet

session == <<recipe, currentStepIndex, inputVal, outputVal, frames, timers,
             afterFail, afterEnd, last>>

(***************************************************************************)
(* One call of CryptoOperations.execute, and its settling when the         *)
(* transform is asynchronous.                                              *)
(***************************************************************************)
InitExec ==
  /\ SessionInit
  /\ call \in ExecCalls
  /\ ret = NoRet

CallExecute ==
  /\ call.fn = "execute"
  /\ ret.st = "none"
  /\ ret' = Execute(call.key, call.input, call.params)
  /\ UNCHANGED <<session, call>>

SettleExecute(digestOk) ==
  /\ call.fn = "execute"
  /\ ret.st = "pending"
  /\ ret' = Sha256Settled(ret.v, digestOk) @@ [checked |-> ret.checked, called |-> ret.called]
  /\ UNCHANGED <<session, call>>

NextExec ==
  \/ CallExecute
  \/ \E digestOk \in BOOLEAN : SettleExecute(digestOk)

SpecExec == InitExec /\ [][NextExec]_vars

(***************************************************************************)
(* One call of a cipher's fn.                                              *)
(***************************************************************************)
InitCipher ==
  /\ SessionInit
  /\ call \in CipherCalls
  /\ ret = NoRet

CallCaesar ==
  /\ call.fn = "caesar"
  /\ ret.st = "none"
  /\ ret' = CaesarFn(call.input, call.params) @@ [checked |-> FALSE, called |-> TRUE]
  /\ UNCHANGED <<session, call>>

CallCaesarDecrypt ==
  /\ call.fn = "caesarDecrypt"
  /\ ret.st = "none"
  /\ ret' = CaesarDecryptFn(call.input, call.params) @@ [checked |-> FALSE, called |-> TRUE]
  /\ UNCHANGED <<session, call>>

NextCipher ==
  \/ CallCaesar
  \/ CallCaesarDecrypt

SpecCipher == InitCipher /\ [][NextCipher]_vars

(***************************************************************************)
(* The sessions.                                                           *)
(***************************************************************************)
Edits(index) ==
  IF index < Len(recipe) THEN EditChoices(recipe[index + 1].op) ELSE {NoParams}

\* the edit that puts a shift out of range
RangeEdits(index) == Edits(index) \ {[NoParams EXCEPT !.shift = Str(<<>>)]}

\* every handler of the page, on recipes of synchronous operations: a handler
\* then runs to its end before the next event is taken
Next ==
  \/ \E opKey \in AddKeys : AddOperation(opKey)
  \/ \E index \in 0..Len(recipe) : RemoveOperation(index)
  \/ \E index \in 0..Len(recipe) : \E params \in RangeEdits(index) : UpdateOperation(index, params)
  \/ \E fromIndex, toIndex \in 0..Len(recipe) : MoveOperation(fromIndex, toIndex)
  \/ ClearRecipe
  \/ \E data \in LoadPool : LoadRecipe(data)
  \/ Bake
  \/ Step
  \/ TimerFires
  \/ \E text \in InputPool : InputEdited(text)
  \/ ClearInput
  \/ \E text \in InputPool : PasteInput(text)
  \/ ClearOutput

Spec == Init /\ [][Next]_vars

\* run-to-completion alone, one run at a time: executeRecipe reads the recipe
\* and the input field and writes the output field, which it never reads, so
\* that runs do not see each other
NextBake ==
  \/ \E opKey \in BakeAddKeys : AddOperation(opKey)
  \/ \E index \in 0..Len(recipe) : RemoveOperation(index)
  \/ (frames = <<>> /\ Bake)
  \/ \E digestOk \in BOOLEAN : BakeResume(1, digestOk)
  \/ \E text \in InputPool : InputEdited(text)

SpecBake == Init /\ [][NextBake]_vars

\* run-to-completion on recipes whose steps fail: in the required-parameter
\* check, in the transform's own checks, in calling a value that has no fn, in
\* the platform's digest
NextBakeFail ==
  \/ \E opKey \in FailAddKeys : AddOperation(opKey)
  \/ \E index \in 0..Len(recipe) : \E params \in Edits(index) : UpdateOperation(index, params)
  \/ \E data \in FailLoadPool : LoadRecipe(data)
  \/ (frames = <<>> /\ Bake)
  \/ \E digestOk \in BOOLEAN : BakeResume(1, digestOk)
  \/ \E text \in InputPool : InputEdited(text)

SpecBakeFail == Init /\ [][NextBakeFail]_vars

\* single-step mode alone
NextStep ==
  \/ \E opKey \in StepAddKeys : AddOperation(opKey)
  \/ \E index \in 0..Len(recipe) : RemoveOperation(index)
  \/ \E index \in 0..Len(recipe) : \E params \in RangeEdits(index) : UpdateOperation(index, params)
  \/ Step
  \/ \E k \in 1..MaxInFlight : StepResume(k, TRUE)
  \/ TimerFires
  \/ \E text \in InputPool : InputEdited(text)

SpecStep == Init /\ [][NextStep]_vars

(***************************************************************************)
(* The ciphers of cipher.js and the codecs of encoding.js, as pure         *)
(* functions of text (sequences of UTF-16 code units) and parameters.      *)
(***************************************************************************)
\* 'Key is required'
TxtKeyRequired ==
  <<75, 101, 121, 32, 105, 115, 32, 114, 101, 113, 117, 105, 114, 101, 100>>
\* 'Key must contain at least one letter'
TxtKeyNeedsLetter ==
  <<75, 101, 121, 32, 109, 117, 115, 116, 32, 99, 111, 110, 116, 97, 105, 110, 32, 97, 116, 32, 108, 101, 97, 115, 116, 32, 111, 110, 101, 32, 108, 101, 116, 116, 101, 114>>
\* 'Number of rails must be between 2 and 10'
TxtRailsRange ==
  <<78, 117, 109, 98, 101, 114, 32, 111, 102, 32, 114, 97, 105, 108, 115, 32, 109, 117, 115, 116, 32, 98, 101, 32, 98, 101, 116, 119, 101, 101, 110, 32, 50, 32, 97, 110, 100, 32, 49, 48>>
\* 'Substitution alphabet is required'
TxtAlphabetRequired ==
  <<83, 117, 98, 115, 116, 105, 116, 117, 116, 105, 111, 110, 32, 97, 108, 112, 104, 97, 98, 101, 116, 32, 105, 115, 32, 114, 101, 113, 117, 105, 114, 101, 100>>
\* 'Alphabet must contain exactly 26 unique letters'
TxtAlphabetUnique ==
  <<65, 108, 112, 104, 97, 98, 101, 116, 32, 109, 117, 115, 116, 32, 99, 111, 110, 116, 97, 105, 110, 32, 101, 120, 97, 99, 116, 108, 121, 32, 50, 54, 32, 117, 110, 105, 113, 117, 101, 32, 108, 101, 116, 116, 101, 114, 115>>
\* 'ABCDEFGHIJKLMNOPQRSTUVWXYZ'
TxtNormalAlphabet ==
  <<65, 66, 67, 68, 69, 70, 71, 72, 73, 74, 75, 76, 77, 78, 79, 80, 81, 82, 83, 84, 85, 86, 87, 88, 89, 90>>
\* 'ABCDEFGHIJKLMNOPQRSTUVWXYZ234567'
TxtBase32Chars ==
  <<65, 66, 67, 68, 69, 70, 71, 72, 73, 74, 75, 76, 77, 78, 79, 80, 81, 82, 83, 84, 85, 86, 87, 88, 89, 90, 50, 51, 52, 53, 54, 55>>
\* 'Invalid Base32 character'
TxtInvalidBase32 ==
  <<73, 110, 118, 97, 108, 105, 100, 32, 66, 97, 115, 101, 51, 50, 32, 99, 104, 97, 114, 97, 99, 116, 101, 114>>
\* 'Invalid hex string: '
TxtInvalidHexPrefix ==
  <<73, 110, 118, 97, 108, 105, 100, 32, 104, 101, 120, 32, 115, 116, 114, 105, 110, 103, 58, 32>>
\* 'Hex string length must be even'
TxtHexEven ==
  <<72, 101, 120, 32, 115, 116, 114, 105, 110, 103, 32, 108, 101, 110, 103, 116, 104, 32, 109, 117, 115, 116, 32, 98, 101, 32, 101, 118, 101, 110>>
\* 'Invalid hex characters'
TxtHexChars ==
  <<73, 110, 118, 97, 108, 105, 100, 32, 104, 101, 120, 32, 99, 104, 97, 114, 97, 99, 116, 101, 114, 115>>
\* 'Invalid binary string: '
TxtInvalidBinaryPrefix ==
  <<73, 110, 118, 97, 108, 105, 100, 32, 98, 105, 110, 97, 114, 121, 32, 115, 116, 114, 105, 110, 103, 58, 32>>
\* 'Binary string length must be multiple of 8'
TxtBinaryMultiple ==
  <<66, 105, 110, 97, 114, 121, 32, 115, 116, 114, 105, 110, 103, 32, 108, 101, 110, 103, 116, 104, 32, 109, 117, 115, 116, 32, 98, 101, 32, 109, 117, 108, 116, 105, 112, 108, 101, 32, 111, 102, 32, 56>>
\* "Cannot read properties of null (reading 'map')"
TxtNullMap ==
  <<67, 97, 110, 110, 111, 116, 32, 114, 101, 97, 100, 32, 112, 114, 111, 112, 101, 114, 116, 105, 101, 115, 32, 111, 102, 32, 110, 117, 108, 108, 32, 40, 114, 101, 97, 100, 105, 110, 103, 32, 39, 109, 97, 112, 39, 41>>

\* rot13.fn
Rot13Fn(input) ==
  LET F(c) == ShiftLetter(c, 13) IN Ok(MapText(F, input))

\* atbash.fn: 219 - c for a..z, 155 - c for A..Z
AtbashLetter(c) ==
  IF IsLower(c) THEN 219 - c ELSE IF IsUpper(c) THEN 155 - c ELSE c

AtbashFn(input) == Ok(MapText(AtbashLetter, input))

\* String.prototype.toUpperCase on ASCII and Latin-1 text
UpperOf(c) ==
  IF IsLower(c) THEN <<c - 32>>
  ELSE IF c = 223 THEN <<83, 83>>
  ELSE IF c = 255 THEN <<376>>
  ELSE IF c >= 224 /\ c <= 254 /\ c # 247 THEN <<c - 32>>
  ELSE <<c>>

RECURSIVE ToUpperCase(_)
ToUpperCase(s) == IF s = <<>> THEN <<>> ELSE UpperOf(Head(s)) \o ToUpperCase(Tail(s))

\* String.prototype.toLowerCase of one character of ASCII or Latin-1
LowerOf(c) ==
  IF IsUpper(c) THEN c + 32
  ELSE IF c >= 192 /\ c <= 222 /\ c # 215 THEN c + 32
  ELSE c

\* .replace(/[^A-Z]/g, '')
RECURSIVE OnlyUpper(_)
OnlyUpper(s) ==
  IF s = <<>> THEN <<>>
  ELSE IF IsUpper(Head(s)) THEN <<Head(s)>> \o OnlyUpper(Tail(s))
  ELSE OnlyUpper(Tail(s))

\* String(params.key).toUpperCase().replace(/[^A-Z]/g, '')
NormalKey(params) == OnlyUpper(ToUpperCase(ToStr(params.key)))

\* VigenereLoop advancing the key on every character, letter or not
RECURSIVE VigenereLoopEveryChar(_, _, _, _)
VigenereLoopEveryChar(text, key, keyIndex, sign) ==
  IF text = <<>> THEN <<>>
  ELSE LET char == Head(text) IN
       IF (char >= 65 /\ char <= 90) \/ (char >= 97 /\ char <= 122)
         THEN LET base == IF char <= 90 THEN 65 ELSE 97
                  shift == key[(keyIndex % Len(key)) + 1] - 65
                  moved == IF sign = 1 THEN (char - base + shift) % 26
                           ELSE (char - base - shift + 26) % 26
              IN  <<base + moved>> \o VigenereLoopEveryChar(Tail(text), key, keyIndex + 1, sign)
         ELSE <<char>> \o VigenereLoopEveryChar(Tail(text), key, keyIndex + 1, sign)

\* the loop of vigenere.fn and vigenereDecrypt.fn from text[i] on: sign is 1
\* to encrypt, -1 to decrypt
RECURSIVE VigenereLoop(_, _, _, _)
VigenereLoop(text, key, keyIndex, sign) ==
  IF text = <<>> THEN <<>>
  ELSE LET char == Head(text) IN
       IF IsLetter(char)
         THEN LET base == IF char <= 90 THEN 65 ELSE 97
                  shift == key[(keyIndex % Len(key)) + 1] - 65
                  moved == IF sign = 1 THEN (char - base + shift) % 26
                           ELSE (char - base - shift + 26) % 26
              IN  <<base + moved>> \o VigenereLoop(Tail(text), key, keyIndex + 1, sign)
         ELSE <<char>> \o VigenereLoop(Tail(text), key, keyIndex, sign)

VigenereFn(input, params) ==
  IF ~Truthy(params.key) THEN Err(TxtKeyRequired)
  ELSE IF NormalKey(params) = <<>> THEN Err(TxtKeyNeedsLetter)
  ELSE Ok(VigenereLoop(input, NormalKey(params), 0, 1))

VigenereDecryptFn(input, params) ==
  IF ~Truthy(params.key) THEN Err(TxtKeyRequired)
  ELSE IF NormalKey(params) = <<>> THEN Err(TxtKeyNeedsLetter)
  ELSE Ok(VigenereLoop(input, NormalKey(params), 0, 0 - 1))

\* a | b in place of a ^ b
RECURSIVE BitOr(_, _)
BitOr(a, b) ==
  IF a = 0 THEN b
  ELSE IF b = 0 THEN a
  ELSE (IF a % 2 = 1 \/ b % 2 = 1 THEN 1 ELSE 0) + 2 * BitOr(a \div 2, b \div 2)

\* a ^ b on non-negative integers
RECURSIVE BitXor(_, _)
BitXor(a, b) ==
  IF a = 0 THEN b
  ELSE IF b = 0 THEN a
  ELSE ((a + b) % 2) + 2 * BitXor(a \div 2, b \div 2)

\* xorCipher.fn: text.charCodeAt(i) ^ key.charCodeAt(i % key.length)
XorCipherFn(input, params) ==
  LET key == ToStr(params.key) IN
  IF ~Truthy(params.key) THEN Err(TxtKeyRequired)
  ELSE Ok([i \in 1..Len(input) |-> BitXor(input[i], key[((i - 1) % Len(key)) + 1])])

\* new Set(alphabet).size
Distinct(s) == Cardinality({s[i] : i \in 1..Len(s)})

SubstituteChar(c, alphabet) ==
  IF IsLower(c) THEN LowerOf(alphabet[(c - 32) - 65 + 1])
  ELSE IF IsUpper(c) THEN alphabet[c - 65 + 1]
  ELSE c

\* substitution.fn
SubstitutionFn(input, params) ==
  LET alphabet == ToUpperCase(ToStr(params.alphabet))
      F(c) == SubstituteChar(c, alphabet)
  IN  IF ~Truthy(params.alphabet) THEN Err(TxtAlphabetRequired)
      ELSE IF Len(alphabet) # 26 \/ Distinct(alphabet) # 26 THEN Err(TxtAlphabetUnique)
      ELSE Ok(MapText(F, input))


\* parseInt(params.rails) || 3
RailsOf(params) ==
  LET p == ParseInt(params.rails) IN IF p.nan \/ p.n = 0 THEN 3 ELSE p.n

IsHighSurrogate(c) == c >= 55296 /\ c <= 56319
IsLowSurrogate(c) == c >= 56320 /\ c <= 57343

\* for (let char of text): the string iterator yields code points, a
\* surrogate pair as one element of two code units
RECURSIVE CodePoints(_)
CodePoints(s) ==
  IF s = <<>> THEN <<>>
  ELSE IF Len(s) >= 2 /\ IsHighSurrogate(s[1]) /\ IsLowSurrogate(s[2])
    THEN <<SubSeq(s, 1, 2)>> \o CodePoints(SubSeq(s, 3, Len(s)))
  ELSE <<SubSeq(s, 1, 1)>> \o CodePoints(Tail(s))

\* the rails visited by n steps of the zig-zag walk that is at rail, heading
\* in direction: rail += direction; if (rail === 0 || rail === rails - 1)
\* direction = -direction
RECURSIVE ZigZag(_, _, _, _)
ZigZag(n, rails, rail, direction) ==
  IF n = 0 THEN <<>>
  ELSE LET next == rail + direction
           turn == IF next = 0 \/ next = rails - 1 THEN 0 - direction ELSE direction
       IN  <<rail>> \o ZigZag(n - 1, rails, next, turn)

\* what the walk pushed on rail r: the elements at the positions of r, in order
RECURSIVE OnRail(_, _, _)
OnRail(elems, pattern, r) ==
  IF elems = <<>> THEN <<>>
  ELSE (IF Head(pattern) = r THEN <<Head(elems)>> ELSE <<>>)
       \o OnRail(Tail(elems), Tail(pattern), r)

\* .flat().join('') and string concatenation of a list of strings
RECURSIVE Join(_)
Join(parts) == IF parts = <<>> THEN <<>> ELSE Head(parts) \o Join(Tail(parts))

\* FlatFence reading the last rail first
RECURSIVE FlatFenceFromLast(_, _, _, _)
FlatFenceFromLast(elems, pattern, r, rails) ==
  IF r >= rails THEN <<>>
  ELSE FlatFenceFromLast(elems, pattern, r + 1, rails) \o Join(OnRail(elems, pattern, r))

\* fence.flat().join('') for rails r..rails-1
RECURSIVE FlatFence(_, _, _, _)
FlatFence(elems, pattern, r, rails) ==
  IF r >= rails THEN <<>>
  ELSE Join(OnRail(elems, pattern, r)) \o FlatFence(elems, pattern, r + 1, rails)

\* railFence.fn
RailFenceFn(input, params) ==
  LET rails == RailsOf(params)
      elems == CodePoints(input)
      pattern == ZigZag(Len(elems), rails, 0, 1)
  IN  IF rails < 2 \/ rails > 10 THEN Err(TxtRailsRange)
      ELSE IF Len(input) < rails THEN Ok(input)
      ELSE Ok(FlatFence(elems, pattern, 0, rails))

\* how many of the first n positions of pattern lie on rail r
Count(pattern, r, n) == Cardinality({i \in 1..n : pattern[i] = r})

\* how many positions lie on the rails before r
Before(pattern, r) == Cardinality({i \in 1..Len(pattern) : pattern[i] < r})

\* railFenceDecrypt.fn: the pattern over text.length code units, the fence
\* filled rail by rail from text[index++], then read along the walk with one
\* read pointer per rail
RailFenceDecryptFn(input, params) ==
  LET rails == RailsOf(params)
      pattern == ZigZag(Len(input), rails, 0, 1)
      fence == [r \in 0..(rails - 1) |->
                  SubSeq(input, Before(pattern, r) + 1,
                         Before(pattern, r) + Count(pattern, r, Len(pattern)))]
  IN  IF rails < 2 \/ rails > 10 THEN Err(TxtRailsRange)
      ELSE IF Len(input) < rails THEN Ok(input)
      ELSE Ok([i \in 1..Len(input) |-> fence[pattern[i]][Count(pattern, pattern[i], i)]])


(***************************************************************************)
(* The codecs of encoding.js.                                              *)
(***************************************************************************)
IsContinuation(b) == b >= 128 /\ b <= 191

\* how many continuation bytes the lead byte b announces; -1: no lead byte
Announced(b) ==
  IF b >= 194 /\ b <= 223 THEN 1
  ELSE IF b >= 224 /\ b <= 239 THEN 2
  ELSE IF b >= 240 /\ b <= 244 THEN 3
  ELSE 0 - 1

\* the second byte of a sequence is in the range its lead byte allows
SecondFits(lead, b) ==
  CASE lead = 224 -> b >= 160 /\ b <= 191
    [] lead = 237 -> b >= 128 /\ b <= 159
    [] lead = 240 -> b >= 144 /\ b <= 191
    [] lead = 244 -> b >= 128 /\ b <= 143
    [] OTHER -> IsContinuation(b)

\* how many of the bytes after the lead byte continue its sequence, up to need
RECURSIVE Continues(_, _, _, _)
Continues(b, k, need, lead) ==
  IF k > need \/ k + 1 > Len(b) THEN k - 1
  ELSE IF (IF k = 1 THEN SecondFits(lead, b[2]) ELSE IsContinuation(b[k + 1]))
    THEN Continues(b, k + 1, need, lead)
  ELSE k - 1

\* the UTF-16 code units of a code point
Utf16(cp) ==
  IF cp < 65536 THEN <<cp>>
  ELSE <<55296 + ((cp - 65536) \div 1024), 56320 + ((cp - 65536) % 1024)>>

\* the UTF-8 decoder, errors replaced by U+FFFD (one per maximal ill-formed
\* prefix)
RECURSIVE Utf8Decode(_)
Utf8Decode(b) ==
  IF b = <<>> THEN <<>>
  ELSE IF b[1] < 128 THEN <<b[1]>> \o Utf8Decode(Tail(b))
  ELSE LET need == Announced(b[1])
           got == IF need < 0 THEN 0 ELSE Continues(b, 1, need, b[1])
           rest == SubSeq(b, got + 2, Len(b))
           cp == CASE need = 1 -> (b[1] - 192) * 64 + (b[2] - 128)
                   [] need = 2 -> (b[1] - 224) * 4096 + (b[2] - 128) * 64 + (b[3] - 128)
                   [] OTHER -> (b[1] - 240) * 262144 + (b[2] - 128) * 4096
                               + (b[3] - 128) * 64 + (b[4] - 128)
       IN  IF need < 0 \/ got < need THEN <<65533>> \o Utf8Decode(rest)
           ELSE Utf16(cp) \o Utf8Decode(rest)

\* new TextDecoder().decode(bytes): ignoreBOM is false, so that a leading
\* byte order mark EF BB BF is not part of the text
TextDecode(b) ==
  IF Len(b) >= 3 /\ SubSeq(b, 1, 3) = <<239, 187, 191>>
    THEN Utf8Decode(SubSeq(b, 4, Len(b)))
    ELSE Utf8Decode(b)

\* n.toString(2).padStart(width, '0') as bits
RECURSIVE Bits(_, _)
Bits(n, width) == IF width = 0 THEN <<>> ELSE Bits(n \div 2, width - 1) \o <<n % 2>>

\* parseInt(bits, 2)
RECURSIVE BitsValue(_)
BitsValue(bits) ==
  IF bits = <<>> THEN 0 ELSE 2 * BitsValue(SubSeq(bits, 1, Len(bits) - 1)) + bits[Len(bits)]

RECURSIVE AllBits(_, _)
AllBits(values, width) ==
  IF values = <<>> THEN <<>> ELSE Bits(Head(values), width) \o AllBits(Tail(values), width)

\* bits.slice(i, i + 5).padEnd(5, '0') for i = 0, 5, ...: one symbol each
RECURSIVE Symbols(_)
Symbols(bits) ==
  IF bits = <<>> THEN <<>>
  ELSE IF Len(bits) < 5
    THEN <<TxtBase32Chars[BitsValue(bits \o [i \in 1..(5 - Len(bits)) |-> 0]) + 1]>>
  ELSE <<TxtBase32Chars[BitsValue(SubSeq(bits, 1, 5)) + 1]>> \o Symbols(SubSeq(bits, 6, Len(bits)))

\* while (result.length % 8 !== 0) result += '='
RECURSIVE PadEquals(_)
PadEquals(s) == IF Len(s) % 8 = 0 THEN s ELSE PadEquals(s \o <<61>>)

\* toBase32.fn
ToBase32Fn(input) == Ok(PadEquals(Symbols(AllBits(Utf8(input), 8))))

\* .replace(/=+$/, '')
RECURSIVE StripEquals(_)
StripEquals(s) ==
  IF s # <<>> /\ s[Len(s)] = 61 THEN StripEquals(SubSeq(s, 1, Len(s) - 1)) ELSE s

\* base32chars.indexOf(char)
IndexOf(alphabet, c) ==
  IF \E i \in 1..Len(alphabet) : alphabet[i] = c
    THEN (CHOOSE i \in 1..Len(alphabet) : alphabet[i] = c) - 1
    ELSE 0 - 1

\* parseInt(bits.slice(i, i + 8), 2) for every i with i + 8 <= bits.length
RECURSIVE WholeBytes(_)
WholeBytes(bits) ==
  IF Len(bits) < 8 THEN <<>>
  ELSE <<BitsValue(SubSeq(bits, 1, 8))>> \o WholeBytes(SubSeq(bits, 9, Len(bits)))

\* fromBase32.fn
FromBase32Fn(input) ==
  LET cleaned == ToUpperCase(StripEquals(input))
      indices == [i \in 1..Len(cleaned) |-> IndexOf(TxtBase32Chars, cleaned[i])]
  IN  IF \E i \in 1..Len(cleaned) : indices[i] = 0 - 1 THEN Err(TxtInvalidBase32)
      ELSE Ok(TextDecode(WholeBytes(AllBits(indices, 5))))


\* \s of a regular expression
IsSpace(c) ==
  \/ IsWhite(c)
  \/ c \in {160, 5760, 8232, 8233, 8239, 8287, 12288, 65279}
  \/ c >= 8192 /\ c <= 8202

\* .replace(/[\s:,-]/g, '')
RECURSIVE CleanHex(_)
CleanHex(s) ==
  IF s = <<>> THEN <<>>
  ELSE IF IsSpace(Head(s)) \/ Head(s) \in {58, 44, 45} THEN CleanHex(Tail(s))
  ELSE <<Head(s)>> \o CleanHex(Tail(s))

\* the value of a hexadecimal digit, -1 for any other character
HexValue(c) ==
  IF IsDigit(c) THEN c - 48
  ELSE IF c >= 97 /\ c <= 102 THEN c - 87
  ELSE IF c >= 65 /\ c <= 70 THEN c - 55
  ELSE 0 - 1

\* parseInt(h, 16) on the two characters of h, which hold no white space and
\* no '-': an optional '+', an optional 0x, then the longest prefix of hex
\* digits; NaN when there is none
ParseHexPair(h) ==
  LET v1 == HexValue(h[1])
      v2 == HexValue(h[2])
  IN  IF h[1] = 43 THEN [nan |-> v2 < 0, n |-> v2]
      ELSE IF h[1] = 48 /\ h[2] \in {120, 88} THEN [nan |-> TRUE, n |-> 0]
      ELSE IF v1 < 0 THEN [nan |-> TRUE, n |-> 0]
      ELSE IF v2 < 0 THEN [nan |-> FALSE, n |-> v1]
      ELSE [nan |-> FALSE, n |-> 16 * v1 + v2]

\* cleaned.match(/.{1,2}/g).map(h => parseInt(h, 16)) on text of even length
HexPairs(cleaned) == [i \in 1..(Len(cleaned) \div 2) |-> ParseHexPair(SubSeq(cleaned, 2 * i - 1, 2 * i))]

\* fromHex.fn: every error of the try block is rethrown with the prefix; on
\* the empty string match returns null and null.map throws a TypeError
FromHexFn(input) ==
  LET cleaned == CleanHex(input)
      pairs == HexPairs(cleaned)
  IN  IF Len(cleaned) % 2 # 0 THEN Err(TxtInvalidHexPrefix \o TxtHexEven)
      ELSE IF cleaned = <<>> THEN Err(TxtInvalidHexPrefix \o TxtNullMap)
      ELSE IF \E i \in 1..Len(pairs) : pairs[i].nan THEN Err(TxtInvalidHexPrefix \o TxtHexChars)
      ELSE Ok(TextDecode([i \in 1..Len(pairs) |-> pairs[i].n]))

\* bytes.map(b => b.toString(2).padStart(8, '0')).join(separator)
RECURSIVE JoinBinary(_, _)
JoinBinary(bytes, sep) ==
  IF bytes = <<>> THEN <<>>
  ELSE IF Len(bytes) = 1 THEN [i \in 1..8 |-> 48 + Bits(bytes[1], 8)[i]]
  ELSE [i \in 1..8 |-> 48 + Bits(bytes[1], 8)[i]] \o sep \o JoinBinary(Tail(bytes), sep)

\* toBinary.fn: params.separator !== undefined ? params.separator : ' '
ToBinaryFn(input, params) ==
  LET separator == IF params.separator.t # "undef" THEN ToStr(params.separator) ELSE <<32>>
  IN  Ok(JoinBinary(Utf8(input), separator))

\* .replace(/[^01]/g, '')
RECURSIVE CleanBinary(_)
CleanBinary(s) ==
  IF s = <<>> THEN <<>>
  ELSE IF Head(s) \in {48, 49} THEN <<Head(s)>> \o CleanBinary(Tail(s))
  ELSE CleanBinary(Tail(s))

\* fromBinary.fn: on the empty string match returns null and null.map throws
FromBinaryFn(input) ==
  LET cleaned == CleanBinary(input)
      bits == [i \in 1..Len(cleaned) |-> cleaned[i] - 48]
  IN  IF Len(cleaned) % 8 # 0 THEN Err(TxtInvalidBinaryPrefix \o TxtBinaryMultiple)
      ELSE IF cleaned = <<>> THEN Err(TxtInvalidBinaryPrefix \o TxtNullMap)
      ELSE Ok(TextDecode(WholeBytes(bits)))


(***************************************************************************)
(* Calls of the ciphers: one call of fn, then one call of its inverse on   *)
(* what it returned, with the same parameters. last keeps the first call.  *)
(***************************************************************************)
MaxTextLen == 3
MaxKeyLen == 2

\* the texts of at most n characters of chars
TextsOver(chars, n) == UNION {[1..k -> chars] : k \in 0..n}

\* a, z, M, !
CipherChars == {97, 122, 77, 33}
CipherTexts == TextsOver(CipherChars, MaxTextLen)

\* b, Z, -
KeyChars == {98, 90, 45}
KeyPool == {Str(k) : k \in TextsOver(KeyChars, MaxKeyLen) \ {<<>>}}

\* 'ZYXWVUTSRQPONMLKJIHGFEDCBA'
TxtReversedAlphabet ==
  <<90, 89, 88, 87, 86, 85, 84, 83, 82, 81, 80, 79, 78, 77, 76, 75, 74, 73, 72, 71, 70, 69, 68, 67, 66, 65>>
\* 'qwertyuiopasdfghjklzxcvbnm'
TxtLowerAlphabet ==
  <<113, 119, 101, 114, 116, 121, 117, 105, 111, 112, 97, 115, 100, 102, 103, 104, 106, 107, 108, 122, 120, 99, 118, 98, 110, 109>>
\* '0123456789ABCDEFGHIJKLMNOP'
TxtDigitAlphabet ==
  <<48, 49, 50, 51, 52, 53, 54, 55, 56, 57, 65, 66, 67, 68, 69, 70, 71, 72, 73, 74, 75, 76, 77, 78, 79, 80>>
\* 'AACDEFGHIJKLMNOPQRSTUVWXYZ'
TxtRepeatedAlphabet ==
  <<65, 65, 67, 68, 69, 70, 71, 72, 73, 74, 75, 76, 77, 78, 79, 80, 81, 82, 83, 84, 85, 86, 87, 88, 89, 90>>
\* 'ABCDEFGHIJKLMNOPQRSTUVWXY'
TxtShortAlphabet ==
  <<65, 66, 67, 68, 69, 70, 71, 72, 73, 74, 75, 76, 77, 78, 79, 80, 81, 82, 83, 84, 85, 86, 87, 88, 89>>

AlphabetPool ==
  {Undef, Str(<<>>), Str(TxtReversedAlphabet), Str(TxtLowerAlphabet), Str(TxtDigitAlphabet),
   Str(TxtRepeatedAlphabet), Str(TxtShortAlphabet)}

TripCalls ==
  [fn : {"caesar"}, key : {""}, input : CipherTexts,
   params : {[NoParams EXCEPT !.shift = Num(s)] : s \in 1..25}]
  \cup [fn : {"vigenere", "xorCipher"}, key : {""}, input : CipherTexts,
        params : [key : KeyPool]]
  \cup [fn : {"rot13", "atbash"}, key : {""}, input : CipherTexts, params : {NoParams}]
  \cup [fn : {"substitution"}, key : {""}, input : CipherTexts,
        params : [alphabet : AlphabetPool]]

untouched == <<recipe, currentStepIndex, inputVal, outputVal, frames, timers, afterFail, afterEnd>>

\* the first call of fn, returning r
Invoke(fn, r) ==
  /\ call.fn = fn
  /\ ret.st = "none"
  /\ ret' = r @@ [checked |-> FALSE, called |-> TRUE]
  /\ UNCHANGED <<session, call>>

\* next called on what fn returned, with fn's parameters, returning r
Then(fn, next, r) ==
  /\ call.fn = fn
  /\ ret.st = "ok"
  /\ last.ev = "none"
  /\ last' = [NoLast EXCEPT !.ev = fn, !.st = "ok", !.first = call.input, !.val = ret.v]
  /\ call' = [call EXCEPT !.fn = next, !.input = ret.v]
  /\ ret' = r @@ [checked |-> FALSE, called |-> TRUE]
  /\ UNCHANGED untouched

InitTrip ==
  /\ SessionInit
  /\ call \in TripCalls
  /\ ret = NoRet

CallVigenere == Invoke("vigenere", VigenereFn(call.input, call.params))
CallRot13 == Invoke("rot13", Rot13Fn(call.input))
CallAtbash == Invoke("atbash", AtbashFn(call.input))
CallXorCipher == Invoke("xorCipher", XorCipherFn(call.input, call.params))
CallSubstitution == Invoke("substitution", SubstitutionFn(call.input, call.params))
ThenCaesarDecrypt == Then("caesar", "caesarDecrypt", CaesarDecryptFn(ret.v, call.params))
ThenVigenereDecrypt == Then("vigenere", "vigenereDecrypt", VigenereDecryptFn(ret.v, call.params))
ThenRot13 == Then("rot13", "rot13", Rot13Fn(ret.v))
ThenAtbash == Then("atbash", "atbash", AtbashFn(ret.v))
ThenXorCipher == Then("xorCipher", "xorCipher", XorCipherFn(ret.v, call.params))

NextTrip ==
  \/ CallCaesar
  \/ CallVigenere
  \/ CallRot13
  \/ CallAtbash
  \/ CallXorCipher
  \/ CallSubstitution
  \/ ThenCaesarDecrypt
  \/ ThenVigenereDecrypt
  \/ ThenRot13
  \/ ThenAtbash
  \/ ThenXorCipher

SpecTrip == InitTrip /\ [][NextTrip]_vars

(***************************************************************************)
(* Calls of railFence and railFenceDecrypt.                                *)
(***************************************************************************)
MaxRailTextLen == 5
MaxRails == 4

\* a, b, and the two code units of U+1F600
RailChars == {97, 98, 55357, 56832}
RailTexts == TextsOver(RailChars, MaxRailTextLen)

RailsPool == {Num(r) : r \in 2..MaxRails} \cup {Num(10), Num(11)}

RailCalls == [fn : {"railFence"}, key : {""}, input : RailTexts, params : [rails : RailsPool]]

InitRail ==
  /\ SessionInit
  /\ call \in RailCalls
  /\ ret = NoRet

CallRailFence == Invoke("railFence", RailFenceFn(call.input, call.params))
ThenRailFenceDecrypt ==
  Then("railFence", "railFenceDecrypt", RailFenceDecryptFn(ret.v, call.params))

NextRail ==
  \/ CallRailFence
  \/ ThenRailFenceDecrypt

SpecRail == InitRail /\ [][NextRail]_vars


(***************************************************************************)
(* Calls of the codecs: an encoder and then its decoder on what it         *)
(* returned, or a decoder alone on a payload.                              *)
(***************************************************************************)
MaxCodecLen == 2
MaxPayloadLen == 4

\* A, U+00E9, U+20AC, U+FEFF: one, two and three bytes of UTF-8
CodecChars == {65, 233, 8364, 65279}
CodecTexts == TextsOver(CodecChars, MaxCodecLen)

\* 4, 1, g, +, :
HexChars == {52, 49, 103, 43, 58}
HexPayloads == TextsOver(HexChars, MaxPayloadLen)

\* A, a, M, 1, =
Base32Chars == {65, 97, 77, 49, 61}
Base32Payloads == TextsOver(Base32Chars, MaxPayloadLen)

\* 'A' and 'B' as bits
BitsA == <<48, 49, 48, 48, 48, 48, 48, 49>>
BitsB == <<48, 49, 48, 48, 48, 48, 49, 48>>

\* the payloads of fromBinary: whole bytes, with separators, with other
\* characters, with a bit missing, and none
BinaryPayloads ==
  {<<>>, BitsA, BitsA \o <<32>> \o BitsB, BitsA \o BitsB, SubSeq(BitsA, 1, 7),
   BitsA \o <<120>>, <<50>> \o BitsA, SubSeq(BitsA, 1, 4) \o <<120>> \o SubSeq(BitsA, 5, 8),
   BitsA \o <<48>>, <<120>>}

CodecCalls ==
  [fn : {"toHex"}, key : {""}, input : CodecTexts,
   params : {[NoParams EXCEPT !.separator = Str(<<>>)], [NoParams EXCEPT !.separator = Str(<<58>>)]}]
  \cup [fn : {"toBinary"}, key : {""}, input : CodecTexts,
        params : {[NoParams EXCEPT !.separator = Str(<<>>)], NoParams}]
  \cup [fn : {"toBase32"}, key : {""}, input : CodecTexts, params : {NoParams}]
  \cup [fn : {"fromHex"}, key : {""}, input : HexPayloads, params : {NoParams}]
  \cup [fn : {"fromBase32"}, key : {""}, input : Base32Payloads, params : {NoParams}]
  \cup [fn : {"fromBinary"}, key : {""}, input : BinaryPayloads, params : {NoParams}]

InitCodec ==
  /\ SessionInit
  /\ call \in CodecCalls
  /\ ret = NoRet

CallToHex == Invoke("toHex", ToHexFn(call.input, call.params))
CallToBinary == Invoke("toBinary", ToBinaryFn(call.input, call.params))
CallToBase32 == Invoke("toBase32", ToBase32Fn(call.input))
CallFromHex == Invoke("fromHex", FromHexFn(call.input))
CallFromBinary == Invoke("fromBinary", FromBinaryFn(call.input))
CallFromBase32 == Invoke("fromBase32", FromBase32Fn(call.input))
ThenFromHex == Then("toHex", "fromHex", FromHexFn(ret.v))
ThenFromBinary == Then("toBinary", "fromBinary", FromBinaryFn(ret.v))
ThenFromBase32 == Then("toBase32", "fromBase32", FromBase32Fn(ret.v))

NextCodec ==
  \/ CallToHex
  \/ CallToBinary
  \/ CallToBase32
  \/ CallFromHex
  \/ CallFromBinary
  \/ CallFromBase32
  \/ ThenFromHex
  \/ ThenFromBinary
  \/ ThenFromBase32

SpecCodec == InitCodec /\ [][NextCodec]_vars

(***************************************************************************)
(* crc32 (src/js/operations/hash.js).  A 32-bit word is the sequence of    *)
(* its bits, lowest first: the JavaScript operators ^, & and >>> work on   *)
(* the 32 bits of their operands.  SubSeq(w, 1, 32) is w itself, written   *)
(* out as a sequence of its 32 bits.                                       *)
(***************************************************************************)

\* the word of a number below 65536
WordOf(n) == SubSeq([i \in 1..32 |-> IF i <= 16 THEN (n \div (2 ^ (i - 1))) % 2 ELSE 0], 1, 32)

\* the word written as 8 hexadecimal digits, highest first
WordOfHex(digits) == [i \in 1..32 |-> (digits[8 - ((i - 1) \div 4)] \div (2 ^ ((i - 1) % 4))) % 2]

\* 0xEDB88320
CrcPolynomial == WordOfHex(<<14, 13, 11, 8, 8, 3, 2, 0>>)

\* -1
AllOnes == [i \in 1..32 |-> 1]

\* a ^ b
WordXor(a, b) == SubSeq([i \in 1..32 |-> (a[i] + b[i]) % 2], 1, 32)

\* a >>> k
ShiftRight(a, k) == SubSeq([i \in 1..32 |-> IF i + k <= 32 THEN a[i + k] ELSE 0], 1, 32)

\* a & 0xFF
LowByte(a) == a[1] + 2 * a[2] + 4 * a[3] + 8 * a[4] + 16 * a[5] + 32 * a[6] + 64 * a[7] + 128 * a[8]

\* the inner loop of makeCRCTable: k more rounds on c
RECURSIVE TableRounds(_, _)
TableRounds(c, k) ==
  IF k = 0 THEN c
  ELSE TableRounds(IF c[1] = 1 THEN WordXor(CrcPolynomial, ShiftRight(c, 1))
                   ELSE ShiftRight(c, 1), k - 1)

\* makeCRCTable()
crcTable == [n \in 0..255 |-> TableRounds(WordOf(n), 8)]

\* the loop over str.charCodeAt(i), from character i on
RECURSIVE CrcLoop(_, _, _)
CrcLoop(str, i, crc) ==
  IF i <= Len(str) /\ Len(crc) = 32
    THEN CrcLoop(str, i + 1,
                 WordXor(ShiftRight(crc, 8), crcTable[LowByte(WordXor(crc, WordOf(str[i])))]))
  ELSE crc

\* the hexadecimal digit of bits 4k+1..4k+4 of a word
Nibble(a, k) == TxtHexDigits[a[4 * k + 1] + 2 * a[4 * k + 2] + 4 * a[4 * k + 3] + 8 * a[4 * k + 4] + 1]

\* (a >>> 0).toString(16): no leading zero, one digit at least
RECURSIVE WithoutLeadingZeros(_)
WithoutLeadingZeros(s) ==
  IF Len(s) > 1 /\ Head(s) = 48 THEN WithoutLeadingZeros(Tail(s)) ELSE s

WordToString16(a) == WithoutLeadingZeros([j \in 1..8 |-> Nibble(a, 8 - j)])

\* s.padStart(8, '0')
PadStart8(s) == [j \in 1..(8 - Len(s)) |-> 48] \o s

\* crc32.fn
Crc32Fn(input) == Ok(PadStart8(WordToString16(WordXor(CrcLoop(input, 1, AllOnes), AllOnes))))

MaxCrcLen == 3

\* '123456789'
TxtCheckInput == <<49, 50, 51, 52, 53, 54, 55, 56, 57>>

\* characters of one byte, and of code units 233 and 8364 (0x20AC)
CrcChars == {49, 97, 233, 8364}
CrcTexts == TextsOver(CrcChars, MaxCrcLen) \cup {TxtCheckInput}

CrcCalls == [fn : {"crc32"}, key : {""}, input : CrcTexts, params : {NoParams}]

InitCrc ==
  /\ SessionInit
  /\ call \in CrcCalls
  /\ ret = NoRet

CallCrc32 == Invoke("crc32", Crc32Fn(call.input))

NextCrc == CallCrc32

SpecCrc == InitCrc /\ [][NextCrc]_vars

(***************************************************************************)
(* detectInputType (src/js/app.js), on a text.                             *)
(***************************************************************************)

\* text.trim()
RECURSIVE TrimStart(_)
TrimStart(s) == IF s # <<>> /\ IsSpace(Head(s)) THEN TrimStart(Tail(s)) ELSE s

RECURSIVE TrimEnd(_)
TrimEnd(s) == IF s # <<>> /\ IsSpace(s[Len(s)]) THEN TrimEnd(SubSeq(s, 1, Len(s) - 1)) ELSE s

Trim(s) == TrimEnd(TrimStart(s))

\* .replace(/\s+/g, '')
RECURSIVE WithoutSpace(_)
WithoutSpace(s) ==
  IF s = <<>> THEN <<>>
  ELSE IF IsSpace(Head(s)) THEN WithoutSpace(Tail(s))
  ELSE <<Head(s)>> \o WithoutSpace(Tail(s))

\* (trimmed.match(/%[0-9A-Fa-f]{2}/g) || []).length: the matches from left to
\* right, each search starting after the match before it
RECURSIVE UrlEncodedCount(_)
UrlEncodedCount(s) ==
  IF Len(s) < 3 THEN 0
  ELSE IF s[1] = 37 /\ HexValue(s[2]) >= 0 /\ HexValue(s[3]) >= 0
    THEN 1 + UrlEncodedCount(SubSeq(s, 4, Len(s)))
  ELSE UrlEncodedCount(Tail(s))

\* [A-Za-z0-9+/]
IsBase64Char(c) == IsUpper(c) \/ IsLower(c) \/ IsDigit(c) \/ c \in {43, 47}

\* /^[A-Za-z0-9+/]*={0,2}$/.test(s)
Base64Regex(s) ==
  \E k \in 0..2 :
    /\ k <= Len(s)
    /\ \A i \in 1..Len(s) : IF i <= Len(s) - k THEN IsBase64Char(s[i]) ELSE s[i] = 61

\* the format test a mutation replaces: valid only when not hexadecimal
IsBase64NotHex(cleaned) ==
  /\ Base64Regex(cleaned)
  /\ Len(cleaned) % 4 = 0
  /\ Len(cleaned) > 0
  /\ \E i \in 1..Len(cleaned) : IsBase64Char(cleaned[i])
  /\ \E i \in 1..Len(cleaned) : HexValue(cleaned[i]) < 0

\* isValidBase64Format
IsValidBase64Format(cleaned) ==
  /\ Base64Regex(cleaned)
  /\ Len(cleaned) % 4 = 0
  /\ Len(cleaned) > 0
  /\ \E i \in 1..Len(cleaned) : IsBase64Char(cleaned[i])

\* the 6 bits of a character of the Base64 alphabet
Base64Value(c) ==
  IF IsUpper(c) THEN c - 65
  ELSE IF IsLower(c) THEN c - 71
  ELSE IF IsDigit(c) THEN c + 4
  ELSE IF c = 43 THEN 62 ELSE 63

RECURSIVE Base64Bits(_)
Base64Bits(s) == IF s = <<>> THEN <<>> ELSE Bits(Base64Value(Head(s)), 6) \o Base64Bits(Tail(s))

\* atob(s) on a text without white space: with a length that is a multiple
\* of 4, one or two '=' at the end are removed; a length of 4k + 1 or a
\* character outside the alphabet throws; the bits beyond whole bytes are
\* dropped
Atob(s) ==
  LET body == IF Len(s) % 4 = 0 /\ Len(s) >= 2 /\ s[Len(s)] = 61
                THEN (IF s[Len(s) - 1] = 61 THEN SubSeq(s, 1, Len(s) - 2)
                      ELSE SubSeq(s, 1, Len(s) - 1))
              ELSE s
  IN  IF Len(body) % 4 = 1 \/ \E i \in 1..Len(body) : ~IsBase64Char(body[i])
        THEN Err(<<>>)
      ELSE Ok(WholeBytes(Base64Bits(body)))

\* /^[\x20-\x7E\s]*$/.test(decoded)
IsPrintable(decoded) == \A i \in 1..Len(decoded) : (decoded[i] >= 32 /\ decoded[i] <= 126) \/ IsSpace(decoded[i])

\* isValidHex
IsValidHex(cleaned) ==
  /\ cleaned # <<>>
  /\ \A i \in 1..Len(cleaned) : HexValue(cleaned[i]) >= 0
  /\ Len(cleaned) % 2 = 0
  /\ Len(cleaned) > 0

\* the fields of the result the callers read
Detection(detected, type, confidence, operation) ==
  [detected |-> detected, type |-> type, confidence |-> confidence, operation |-> operation]

\* detectInputType(text) for a text (typeof text is 'string')
DetectInputType(text) ==
  LET trimmed == Trim(text)
      cleaned == WithoutSpace(trimmed)
      urlEncodedCount == UrlEncodedCount(trimmed)
      decoded == Atob(cleaned)
  IN  IF text = <<>> THEN Detection(FALSE, "null", "none", "null")
      ELSE IF trimmed = <<>> THEN Detection(FALSE, "null", "none", "null")
      ELSE IF urlEncodedCount >= 1 /\ urlEncodedCount >= 2
        THEN Detection(TRUE, "URL-encoded", IF urlEncodedCount > 5 THEN "high" ELSE "medium",
                       "urlDecode")
      ELSE IF IsValidBase64Format(cleaned) /\ Len(cleaned) >= 4 /\ decoded.st = "ok"
        THEN Detection(TRUE, "Base64",
                       IF IsPrintable(decoded.v) /\ Len(decoded.v) > 0 THEN "high" ELSE "medium",
                       "fromBase64")
      ELSE IF IsValidHex(cleaned) /\ Len(cleaned) >= 8
        THEN Detection(TRUE, "Hexadecimal", IF Len(cleaned) >= 16 THEN "high" ELSE "medium",
                       "fromHex")
      ELSE Detection(TRUE, "Plain Text", "high", "null")

MaxRepeat == 9

\* '%41', '4a', 'zZ', '+/'
DetectUnits == {<<37, 52, 49>>, <<52, 97>>, <<122, 90>>, <<43, 47>>}

\* '', ' ', '!', '%4a'
DetectPrefixes == {<<>>, <<32>>, <<33>>, <<37, 52, 97>>}

\* '', '=', '==', ' ', 'g', '\n4a', '%4'
DetectSuffixes == {<<>>, <<61>>, <<61, 61>>, <<32>>, <<103>>, <<10, 52, 97>>, <<37, 52>>}

RECURSIVE Repeat(_, _)
Repeat(unit, k) == IF k = 0 THEN <<>> ELSE unit \o Repeat(unit, k - 1)

DetectTexts ==
  {p \o Repeat(u, k) \o s : p \in DetectPrefixes, u \in DetectUnits, k \in 0..MaxRepeat,
                            s \in DetectSuffixes}

DetectCalls == [fn : {"detectInputType"}, key : {""}, input : DetectTexts, params : {NoParams}]

InitDetect ==
  /\ SessionInit
  /\ call \in DetectCalls
  /\ ret = NoRet

CallDetectInputType == Invoke("detectInputType", Ok(DetectInputType(call.input)))

NextDetect == CallDetectInputType

SpecDetect == InitDetect /\ [][NextDetect]_vars

(***************************************************************************)
(* Single-step runs on a recipe that addOperation and updateOperation      *)
(* built, with no other event than the steps and the delayed reset.        *)
(***************************************************************************)
MaxModeLen == 3

\* the steps of addOperation('reverse'), addOperation('caesar'),
\* addOperation('toBase64'), and a caesar step updated to the shift 30
ModeSteps ==
  {[op |-> key, params |-> DefaultParams(key)] : key \in {"reverse", "caesar", "toBase64"}}
  \cup {[op |-> "caesar", params |-> [NoParams EXCEPT !.shift = Num(30)]]}

ModeRecipes == UNION {[1..n -> ModeSteps] : n \in 1..MaxModeLen}

ModeInputs == {TxtHi, <<97, 90, 33>>}

\* the recipe is built and the input typed; no run has started
InitModes ==
  /\ recipe \in ModeRecipes
  /\ inputVal \in ModeInputs
  /\ currentStepIndex = 0
  /\ outputVal = <<>>
  /\ frames = <<>>
  /\ timers = 0
  /\ afterFail = FALSE
  /\ afterEnd = FALSE
  /\ last = NoLast
  /\ call = NoCall
  /\ ret = NoRet

NextModes ==
  \/ Step
  \/ TimerFires

SpecModes == InitModes /\ [][NextModes]_vars

(***************************************************************************)
(* moveOperation on recipes of up to MaxMoveLen steps, between the steps   *)
(* of a single-step run.                                                   *)
(***************************************************************************)
MaxMoveLen == 3

\* the steps of addOperation('reverse'), addOperation('toBase64') and
\* addOperation('caesar')
MoveSteps == {[op |-> key, params |-> DefaultParams(key)] : key \in {"reverse", "toBase64", "caesar"}}

MoveRecipes == UNION {[1..n -> MoveSteps] : n \in 0..MaxMoveLen}

\* the recipe is built and the input typed; no run has started
InitMove ==
  /\ recipe \in MoveRecipes
  /\ inputVal = TxtHi
  /\ currentStepIndex = 0
  /\ outputVal = <<>>
  /\ frames = <<>>
  /\ timers = 0
  /\ afterFail = FALSE
  /\ afterEnd = FALSE
  /\ last = NoLast
  /\ call = NoCall
  /\ ret = NoRet

\* moveOperation(NaN, toIndex): every comparison with NaN is false, so that the
\* tests of fromIndex pass, and recipe.splice(NaN, 1) removes the first step
MoveOperationNaN(toIndex) ==
  /\ IF toIndex < 0 \/ toIndex >= Len(recipe)
       THEN UNCHANGED <<recipe, frames>>
       ELSE /\ recipe' = InsertAt(RemoveAt(recipe, 1), toIndex + 1, recipe[1])
            /\ frames' = MarkDirty(frames)
  /\ last' = NoLast
  /\ UNCHANGED <<currentStepIndex, inputVal, outputVal, timers, afterFail, afterEnd, call, ret>>

\* the drop handler, the one caller of moveOperation: something carrying the
\* text data is dropped on the step of index toIndex
Drop(data, toIndex) ==
  LET fromIndex == ParseInt(Str(data)) IN
  /\ toIndex < Len(recipe)
  /\ IF fromIndex.nan THEN MoveOperationNaN(toIndex) ELSE MoveOperation(fromIndex.n, toIndex)

\* what a drag may carry: the index of a step (dragstart), which the recipe
\* may no longer have, or any other text
DropData == {Digits(k) : k \in 0..MaxMoveLen} \cup {<<>>, TxtHi}

NextMove ==
  \/ \E data \in DropData : \E toIndex \in 0..(MaxMoveLen - 1) : Drop(data, toIndex)
  \/ Step
  \/ TimerFires

SpecMove == InitMove /\ [][NextMove]_vars

(***************************************************************************)
(* Properties.                                                             *)
(***************************************************************************)
\* a step applied on its own, its digest succeeding
RefApply(step, v) ==
  LET r == Execute(step.op, v, step.params)
  IN  IF r.st = "pending" THEN Sha256Settled(r.v, TRUE)
      ELSE [st |-> r.st, v |-> r.v, msg |-> r.msg]

\* steps j..n of rcp applied in order to v: the first step that fails (0 if
\* none) and the value reached before it
RECURSIVE RefFold(_, _, _, _)
RefFold(rcp, v, j, n) ==
  IF j > n THEN [step |-> 0, v |-> v, msg |-> <<>>]
  ELSE LET r == RefApply(rcp[j], v)
       IN  IF r.st = "err" THEN [step |-> j, v |-> v, msg |-> r.msg]
           ELSE RefFold(rcp, r.v, j + 1, n)

IsPrefix(p, s) == Len(p) <= Len(s) /\ SubSeq(s, 1, Len(p)) = p

\* C1: when a run-to-completion fails, the failing step k is the first step
\* that fails, the transforms invoked are those of steps up to k, each once and
\* in order, the steps before k are the ones logged as done, and the error
\* reported and written to the output is "Step k: " and the underlying message.
C1_FirstFailureAborts ==
  (last.ev = "bake" /\ last.st = "failed") =>
    /\ last.failStep >= 1
    /\ \A j \in 1..Len(last.calls) :
         /\ last.calls[j] <= last.failStep
         /\ j > 1 => last.calls[j - 1] < last.calls[j]
    /\ Len(last.log) = last.failStep - 1
    /\ \A j \in 1..Len(last.log) : last.log[j].step = j
    /\ last.error = TxtStep \o Digits(last.failStep) \o TxtColonSpace \o last.failMsg
    /\ outputVal = TxtErrorPrefix \o last.error
    /\ last.clean =>
         /\ last.failStep <= Len(recipe)
         /\ LET before == RefFold(recipe, last.first, 1, last.failStep - 1)
                 step == recipe[last.failStep]
                 r == Execute(step.op, before.v, step.params)
             IN  /\ before.step = 0
                 /\ \/ r.st = "err" /\ r.msg = last.failMsg
                    \/ r.st = "pending" /\ last.failMsg = TxtShaFailed

\* a two-step recipe whose first step fails in its transform: step 2 is not run
C1_Witness ==
  /\ last.ev = "bake" /\ last.st = "failed" /\ last.clean
  /\ Len(recipe) = 2
  /\ last.failStep = 1
  /\ last.failMsg = TxtShiftRange
  /\ last.calls = <<1>>

\* C2: a single-step invocation that ran its transform to success ran the step
\* at the cursor and leaves the cursor one higher than it found it.
C2_StepAdvancesByOne ==
  (last.ev = "step" /\ last.st = "ok") =>
    /\ last.after = last.began + 1
    /\ last.shown = last.ran + 1

\* C3: at most one transform is in flight.
C3_NoStepOverlap == Len(frames) <= 1

\* C4: the single-step invocation that runs a step after a failed step runs
\* step 1 of the recipe on the value of the input field.
C4_RestartAfterFailure ==
  (last.ev = "step" /\ ~last.resumed /\ last.pf) =>
    (last.ran = 0 /\ last.first = last.field)

\* C5: the single-step invocation that runs a step after the last step of the
\* recipe was executed runs step 1 of the recipe on the value of the input field.
C5_RestartAfterEnd ==
  (last.ev = "step" /\ ~last.resumed /\ last.pe) =>
    (last.ran = 0 /\ last.first = last.field)

\* C6: for a key that is no operation of the catalog, get returns undefined and
\* execute fails with "Unknown operation: key" before validating or transforming.
C6_UnknownIdRejected ==
  (call.fn = "execute" /\ ret.st # "none" /\ call.key \notin OwnKeys) =>
    /\ Get(call.key) = "undefined"
    /\ ret.st = "err"
    /\ ret.msg = TxtUnknownOperation \o IdText(call.key)
    /\ ~ret.checked
    /\ ~ret.called

\* a value was supplied: present and not the empty string
Supplied(v) == v.t # "undef" /\ v # Str(<<>>)

\* C7: execute on an operation of the catalog fails with the label of a
\* required parameter that is absent or empty, without calling the transform;
\* with every required parameter supplied it calls the transform.
C7_RequiredAndPresent ==
  (call.fn = "execute" /\ ret.st # "none" /\ call.key \in OwnKeys) =>
    LET specs == ParamsOf(call.key)
        missing == {i \in 1..Len(specs) :
                      specs[i].required /\ ~Supplied(call.params[specs[i].name])}
    IN  IF missing # {}
          THEN /\ ret.st = "err"
               /\ ~ret.called
               /\ \E i \in missing :
                    ret.msg = TxtParameterOpen \o specs[i].label \o TxtIsRequired
          ELSE ret.called

\* the first element of a recipe file that is null, has no op, or names no
\* operation of the catalog (0 if none)
RECURSIVE FirstOffending(_, _)
FirstOffending(items, i) ==
  IF i > Len(items) THEN 0
  ELSE IF items[i].null \/ items[i].op \notin OwnKeys THEN i
  ELSE FirstOffending(items, i + 1)

\* C8: loading a value that is not an array fails; loading an array with an
\* offending element fails with a message naming its 1-based position; a
\* failed load leaves the recipe as it was.
C8_LoadAllOrNothing ==
  (last.ev = "load") =>
    LET bad == IF last.data.isArray THEN FirstOffending(last.data.items, 1) ELSE 0
    IN  /\ ~last.data.isArray => last.st = "failed"
        /\ bad # 0 => (last.st = "failed" /\ IsPrefix(TxtStep \o Digits(bad), last.error))

\* C9: when a run-to-completion succeeds, the log lists steps 1..n in order,
\* each was given the output of the one before it (the first the input), each
\* output is the step's transform of what it was given, and the output field
\* holds the last output; on a recipe not edited during the run, n is its
\* length and the output is the recipe applied in order to the input.
C9_StepsChainInOrder ==
  (last.ev = "bake" /\ last.st = "done") =>
    /\ \A j \in 1..Len(last.log) :
         /\ last.log[j].step = j
         /\ last.log[j].inp = (IF j = 1 THEN last.first ELSE last.log[j - 1].out)
         /\ LET r == RefApply([op |-> last.log[j].op, params |-> last.log[j].params],
                              last.log[j].inp)
            IN  r.st = "ok" /\ r.v = last.log[j].out
    /\ last.calls = [j \in 1..Len(last.log) |-> j]
    /\ last.val = (IF last.log = <<>> THEN last.first ELSE last.log[Len(last.log)].out)
    /\ outputVal = last.val
    /\ last.clean =>
         /\ Len(last.log) = Len(recipe)
         /\ \A j \in 1..Len(recipe) :
              last.log[j].op = recipe[j].op /\ last.log[j].params = recipe[j].params
         /\ RefFold(recipe, last.first, 1, Len(recipe)) = [step |-> 0, v |-> last.val, msg |-> <<>>]

\* [toBase64, reverse] on "Hi": "SGk=" then "=kGS"
C9_Witness ==
  /\ last.ev = "bake" /\ last.st = "done" /\ last.clean
  /\ Len(recipe) = 2 /\ recipe[1].op = "toBase64" /\ recipe[2].op = "reverse"
  /\ last.first = TxtHi
  /\ last.log[1].out = <<83, 71, 107, 61>>
  /\ outputVal = <<61, 107, 71, 83>>

\* text that is decimal digits after optional white space
NumericText(s) ==
  LET body == SkipWhite(s) IN body # <<>> /\ \A i \in 1..Len(body) : IsDigit(body[i])

\* the value denotes a shift of 1..25
ShiftInRange(v) ==
  \/ v.t = "num" /\ v.n >= 1 /\ v.n <= 25
  \/ v.t = "str" /\ NumericText(v.s) /\ ParseInt(v).n >= 1 /\ ParseInt(v).n <= 25

\* C10: caesar and caesarDecrypt called with a shift that was supplied and
\* does not denote a number of 1..25 fail with the range error.
C10_ShiftValidated ==
  (call.fn \in {"caesar", "caesarDecrypt"} /\ ret.st # "none"
     /\ Supplied(call.params.shift) /\ ~ShiftInRange(call.params.shift)) =>
    (ret.st = "err" /\ ret.msg = TxtShiftRange)

\* position i of out is position i of inp moved k places forward in its own
\* alphabet (a..z or A..Z), or the same character when inp[i] is no letter
MovedBy(inp, out, i, k) ==
  IF inp[i] >= 65 /\ inp[i] <= 90 THEN out[i] = 65 + ((inp[i] - 65 + k) % 26)
  ELSE IF inp[i] >= 97 /\ inp[i] <= 122 THEN out[i] = 97 + ((inp[i] - 97 + k) % 26)
  ELSE out[i] = inp[i]

\* C11: for a shift s of 1..25, caesar moves every letter s places forward
\* modulo 26 in its own case and leaves every other character; caesarDecrypt
\* on the result with the same shift moves them s places back, which gives
\* the text caesar was called on.
C11_CaesarRoundTrip ==
  /\ (call.fn = "caesar" /\ last.ev = "none" /\ ret.st # "none"
        /\ call.params.shift.t = "num" /\ call.params.shift.n \in 1..25) =>
       /\ ret.st = "ok"
       /\ Len(ret.v) = Len(call.input)
       /\ \A i \in 1..Len(ret.v) : MovedBy(call.input, ret.v, i, call.params.shift.n)
  /\ (call.fn = "caesarDecrypt" /\ last.ev = "caesar") =>
       /\ ret.st = "ok"
       /\ Len(ret.v) = Len(call.input)
       /\ \A i \in 1..Len(ret.v) : MovedBy(call.input, ret.v, i, 26 - call.params.shift.n)
       /\ ret.v = last.first

\* "az!" shifted by 25 is "zy!", and is recovered
C11_Witness ==
  /\ call.fn = "caesarDecrypt" /\ last.ev = "caesar"
  /\ call.params.shift = Num(25)
  /\ last.first = <<97, 122, 33>>
  /\ last.val = <<122, 121, 33>>
  /\ ret.v = <<97, 122, 33>>

\* the letters of a key, as capitals
RECURSIVE KeyLetters(_)
KeyLetters(k) ==
  IF k = <<>> THEN <<>>
  ELSE IF Head(k) >= 65 /\ Head(k) <= 90 THEN <<Head(k)>> \o KeyLetters(Tail(k))
  ELSE IF Head(k) >= 97 /\ Head(k) <= 122 THEN <<Head(k) - 32>> \o KeyLetters(Tail(k))
  ELSE KeyLetters(Tail(k))

\* how many of the first n characters of s are letters
LettersIn(s, n) ==
  Cardinality({i \in 1..n : (s[i] >= 65 /\ s[i] <= 90) \/ (s[i] >= 97 /\ s[i] <= 122)})

\* C12: for a key with at least one letter, vigenere moves the i-th letter of
\* the text (counting letters only, from 0) forward by the letter i mod len of
\* the key's letters and copies every other character; vigenereDecrypt on the
\* result with the same key gives the text vigenere was called on.
C12_VigenereRoundTrip ==
  /\ (call.fn = "vigenere" /\ last.ev = "none" /\ ret.st # "none"
        /\ KeyLetters(call.params.key.s) # <<>>) =>
       LET key == KeyLetters(call.params.key.s) IN
       /\ ret.st = "ok"
       /\ Len(ret.v) = Len(call.input)
       /\ \A i \in 1..Len(ret.v) :
            MovedBy(call.input, ret.v, i,
                    key[(LettersIn(call.input, i - 1) % Len(key)) + 1] - 65)
  /\ (call.fn = "vigenereDecrypt" /\ last.ev = "vigenere") =>
       /\ ret.st = "ok"
       /\ ret.v = last.first

\* "a!z" under the key "bZ": the '!' takes no key letter, so z is moved by Z
C12_Witness ==
  /\ call.fn = "vigenereDecrypt" /\ last.ev = "vigenere"
  /\ call.params.key = Str(<<98, 90>>)
  /\ last.first = <<97, 33, 122>>
  /\ last.val = <<98, 33, 121>>
  /\ ret.v = <<97, 33, 122>>

\* C13: for a rail count r of 2..10 and a text of at least r characters,
\* railFenceDecrypt on what railFence returned, with the same r, gives the
\* text railFence was called on.
C13_RailFenceRoundTrip ==
  (call.fn = "railFenceDecrypt" /\ last.ev = "railFence"
     /\ call.params.rails.n \in 2..10 /\ call.params.rails.n <= Len(last.first)) =>
    /\ ret.st = "ok"
    /\ ret.v = last.first

\* C14: railFence with a rail count of 2..10 that is at least the length of
\* the text returns the text unchanged, also when the two are equal.
C14_RailFenceShortText ==
  (call.fn = "railFence" /\ last.ev = "none" /\ ret.st # "none"
     /\ call.params.rails.n \in 2..10 /\ call.params.rails.n >= Len(call.input)) =>
    /\ ret.st = "ok"
    /\ ret.v = call.input

\* "baa" on 3 rails: the walk is executed and puts one character on each rail
C14_Witness ==
  /\ call.fn = "railFence" /\ last.ev = "none"
  /\ call.params.rails = Num(3)
  /\ call.input = <<98, 97, 97>>
  /\ ret.st = "ok"
  /\ ret.v = <<98, 97, 97>>

\* C15: atbash of atbash of a text, rot13 of rot13 of a text, and xorCipher
\* of xorCipher of a text under the same non-empty key are the text; xorCipher
\* treats alike two equal characters whose positions differ by a multiple of
\* the key's length.
C15_Involutions ==
  /\ (call.fn \in {"atbash", "rot13", "xorCipher"} /\ last.ev = call.fn) =>
       /\ ret.st = "ok"
       /\ ret.v = last.first
  /\ (call.fn = "xorCipher" /\ ret.st # "none") =>
       /\ ret.st = "ok"
       /\ Len(ret.v) = Len(call.input)
       /\ \A i, j \in 1..Len(call.input) :
            (call.input[i] = call.input[j] /\ (i - j) % Len(call.params.key.s) = 0)
              => ret.v[i] = ret.v[j]

\* "aza" under the key "bZ" is changed by xorCipher and recovered by it
C15_Witness ==
  /\ call.fn = "xorCipher" /\ last.ev = "xorCipher"
  /\ call.params.key = Str(<<98, 90>>)
  /\ last.first = <<97, 122, 97>>
  /\ last.val = <<3, 32, 3>>
  /\ ret.v = <<97, 122, 97>>

\* C16: toHex and toBinary with the separator "" give "" for the empty text,
\* fromHex and fromBinary give "" for the empty text, and fromHex of toHex of
\* a text, fromBinary of toBinary of a text, are the text.
C16_HexBinaryRoundTrip ==
  /\ (call.fn \in {"toHex", "toBinary"} /\ last.ev = "none" /\ ret.st # "none"
        /\ call.input = <<>>) =>
       (ret.st = "ok" /\ ret.v = <<>>)
  /\ (call.fn \in {"fromHex", "fromBinary"} /\ ret.st # "none" /\ call.input = <<>>) =>
       (ret.st = "ok" /\ ret.v = <<>>)
  /\ (call.fn = "fromHex" /\ last.ev = "toHex" /\ call.params.separator = Str(<<>>)) =>
       (ret.st = "ok" /\ ret.v = last.first)
  /\ (call.fn = "fromBinary" /\ last.ev = "toBinary" /\ call.params.separator = Str(<<>>)) =>
       (ret.st = "ok" /\ ret.v = last.first)

\* a symbol of the Base32 alphabet: A-Z, 2-7
IsBase32Symbol(c) == (c >= 65 /\ c <= 90) \/ (c >= 50 /\ c <= 55)

\* the number of bytes of the UTF-8 form of a text without surrogates
RECURSIVE ByteLength(_)
ByteLength(s) ==
  IF s = <<>> THEN 0
  ELSE (IF Head(s) < 128 THEN 1 ELSE IF Head(s) < 2048 THEN 2 ELSE 3) + ByteLength(Tail(s))

\* C17: toBase32 of a text of n bytes is ceil(8n/5) symbols of A-Z2-7 followed
\* by fewer than 8 '=' that make the length a multiple of 8, and fromBase32 of
\* it is the text.
C17_Base32RoundTrip ==
  /\ (call.fn = "toBase32" /\ ret.st # "none") =>
       LET symbols == (8 * ByteLength(call.input) + 4) \div 5 IN
       /\ ret.st = "ok"
       /\ Len(ret.v) % 8 = 0
       /\ Len(ret.v) >= symbols
       /\ Len(ret.v) - symbols < 8
       /\ \A i \in 1..Len(ret.v) :
            IF i <= symbols THEN IsBase32Symbol(ret.v[i]) ELSE ret.v[i] = 61
  /\ (call.fn = "fromBase32" /\ last.ev = "toBase32") =>
       (ret.st = "ok" /\ ret.v = last.first)

\* the text without white space, ':' and '-'
RECURSIVE WithoutSeparators(_)
WithoutSeparators(s) ==
  IF s = <<>> THEN <<>>
  ELSE IF Head(s) \in {9, 10, 11, 12, 13, 32, 58, 45} THEN WithoutSeparators(Tail(s))
  ELSE <<Head(s)>> \o WithoutSeparators(Tail(s))

IsHexDigit(c) == (c >= 48 /\ c <= 57) \/ (c >= 97 /\ c <= 102) \/ (c >= 65 /\ c <= 70)

\* C18: fromHex fails when the text without its separators has odd length or
\* holds a character that is no hexadecimal digit, and returns text only when
\* every such character is a hexadecimal digit.
C18_FromHexRejects ==
  (call.fn = "fromHex" /\ last.ev = "none" /\ ret.st # "none") =>
    LET cleaned == WithoutSeparators(call.input)
        allHex == \A i \in 1..Len(cleaned) : IsHexDigit(cleaned[i])
    IN  /\ (Len(cleaned) % 2 = 1 \/ ~allHex) => ret.st = "err"
        /\ ret.st = "ok" => allHex

\* a binary payload that is no sequence of whole bytes of 0 and 1 separated by
\* spaces
MalformedBinary(s) ==
  \/ \E i \in 1..Len(s) : s[i] \notin {48, 49, 32}
  \/ Cardinality({i \in 1..Len(s) : s[i] \in {48, 49}}) % 8 # 0

\* the text without the '=' at its end
RECURSIVE WithoutPadding(_)
WithoutPadding(s) ==
  IF s # <<>> /\ s[Len(s)] = 61 THEN WithoutPadding(SubSeq(s, 1, Len(s) - 1)) ELSE s

\* a Base32 payload with a character outside the alphabet (in either case),
\* or with a number of symbols that whole bytes never give
MalformedBase32(s) ==
  LET body == WithoutPadding(s) IN
  \/ \E i \in 1..Len(body) :
       ~(IsBase32Symbol(body[i]) \/ (body[i] >= 97 /\ body[i] <= 122))
  \/ Len(body) % 8 \in {1, 3, 6}

\* C19: fromBinary and fromBase32 fail on every malformed payload.
C19_NoSilentLoss ==
  /\ (call.fn = "fromBinary" /\ last.ev = "none" /\ ret.st # "none"
        /\ MalformedBinary(call.input)) => ret.st = "err"
  /\ (call.fn = "fromBase32" /\ last.ev = "none" /\ ret.st # "none"
        /\ MalformedBase32(call.input)) => ret.st = "err"

\* a supplied alphabet of 26 letters, all distinct when case is ignored
IsPermutation(alphabet) ==
  /\ alphabet.t = "str"
  /\ Len(alphabet.s) = 26
  /\ \A i \in 1..26 : (alphabet.s[i] >= 65 /\ alphabet.s[i] <= 90)
                      \/ (alphabet.s[i] >= 97 /\ alphabet.s[i] <= 122)
  /\ \A i, j \in 1..26 :
       i # j => (IF alphabet.s[i] >= 97 THEN alphabet.s[i] - 32 ELSE alphabet.s[i])
                # (IF alphabet.s[j] >= 97 THEN alphabet.s[j] - 32 ELSE alphabet.s[j])

\* C20: substitution fails for every alphabet that is not a permutation of the
\* 26 letters; when it succeeds, the letter 'A'+i becomes alphabet[i] in the
\* case of the input letter and every other character is unchanged.
C20_SubstitutionAlphabet ==
  (call.fn = "substitution" /\ last.ev = "none" /\ ret.st # "none") =>
    /\ ~IsPermutation(call.params.alphabet) => ret.st = "err"
    /\ ret.st = "ok" =>
         LET upper == [i \in 1..Len(call.params.alphabet.s) |->
                         IF call.params.alphabet.s[i] >= 97 /\ call.params.alphabet.s[i] <= 122
                         THEN call.params.alphabet.s[i] - 32
                         ELSE call.params.alphabet.s[i]]
         IN  /\ Len(ret.v) = Len(call.input)
             /\ \A i \in 1..Len(call.input) :
                  LET c == call.input[i] IN
                  ret.v[i] = IF c >= 65 /\ c <= 90 THEN upper[c - 64]
                             ELSE IF c >= 97 /\ c <= 122
                               THEN (IF upper[c - 96] >= 65 /\ upper[c - 96] <= 90
                                     THEN upper[c - 96] + 32 ELSE upper[c - 96])
                             ELSE c

\* the eight rounds of the bitwise definition of the reflected CRC
RECURSIVE ReflectedRounds(_, _)
ReflectedRounds(c, k) ==
  IF k = 0 THEN c
  ELSE ReflectedRounds(IF c[1] = 1 THEN WordXor(ShiftRight(c, 1), CrcPolynomial)
                       ELSE ShiftRight(c, 1), k - 1)

\* the register of the reflected CRC after the bytes
RECURSIVE ReflectedCrc(_, _)
ReflectedCrc(bytes, c) ==
  IF Len(c) = 32 /\ bytes # <<>>
    THEN ReflectedCrc(Tail(bytes), ReflectedRounds(WordXor(c, WordOf(Head(bytes))), 8))
  ELSE c

\* C21: crc32 returns the standard reflected CRC-32 of the bytes of the input
\* (initial value and final XOR of all ones) as exactly 8 lowercase hexadecimal
\* digits, and crc32("123456789") is "cbf43926".
C21_StandardCrc32 ==
  (call.fn = "crc32" /\ ret.st # "none") =>
    LET value == WordXor(ReflectedCrc(Utf8(call.input), AllOnes), AllOnes) IN
    /\ ret.st = "ok"
    /\ Len(ret.v) = 8
    /\ \A j \in 1..8 : (ret.v[j] >= 48 /\ ret.v[j] <= 57) \/ (ret.v[j] >= 97 /\ ret.v[j] <= 102)
    /\ ret.v = [j \in 1..8 |-> Nibble(value, 8 - j)]
    /\ call.input = TxtCheckInput => ret.v = <<99, 98, 102, 52, 51, 57, 50, 54>>

\* the number of %XX escapes of a text
Escapes(s) ==
  Cardinality({i \in 1..Len(s) : /\ i + 2 <= Len(s)
                                 /\ s[i] = 37
                                 /\ IsHexDigit(s[i + 1])
                                 /\ IsHexDigit(s[i + 2])})

\* the characters of a text that are no white space
NonBlank(s) == SelectSeq(s, LAMBDA c : ~IsSpace(c))

\* Base64 text: characters of the alphabet, then at most two '=' of padding,
\* in a positive multiple of 4 characters, which decodes
LooksBase64(s) ==
  LET body == SelectSeq(s, LAMBDA c : c # 61) IN
  /\ Len(s) > 0
  /\ Len(s) % 4 = 0
  /\ body # <<>>
  /\ Len(s) - Len(body) <= 2
  /\ SubSeq(s, 1, Len(body)) = body
  /\ \A i \in 1..Len(body) :
       \/ body[i] >= 65 /\ body[i] <= 90
       \/ body[i] >= 97 /\ body[i] <= 122
       \/ body[i] >= 48 /\ body[i] <= 57
       \/ body[i] \in {43, 47}
  /\ Len(body) % 4 # 1

LooksHex(s) == Len(s) >= 8 /\ Len(s) % 2 = 0 /\ \A i \in 1..Len(s) : IsHexDigit(s[i])

\* C22: for a text that is not blank, detectInputType returns the first class
\* that matches, in the order URL-encoded (at least 2 escapes; high above 5,
\* else medium; urlDecode), Base64 (fromBase64), Hexadecimal (high from 16
\* characters, else medium; fromHex), Plain Text (high, no operation).
C22_DetectCascade ==
  (call.fn = "detectInputType" /\ ret.st # "none" /\ NonBlank(call.input) # <<>>) =>
    LET text == NonBlank(call.input)
        found == ret.v
    IN  /\ ret.st = "ok"
        /\ found.detected
        /\ IF Escapes(call.input) >= 2
             THEN /\ found.type = "URL-encoded"
                  /\ found.operation = "urlDecode"
                  /\ found.confidence = IF Escapes(call.input) > 5 THEN "high" ELSE "medium"
           ELSE IF LooksBase64(text)
             THEN found.type = "Base64" /\ found.operation = "fromBase64"
           ELSE IF LooksHex(text)
             THEN /\ found.type = "Hexadecimal"
                  /\ found.operation = "fromHex"
                  /\ found.confidence = IF Len(text) >= 16 THEN "high" ELSE "medium"
           ELSE /\ found.type = "Plain Text"
                /\ found.confidence = "high"
                /\ found.operation = "null"

\* a text of hexadecimal digits that is Base64 text too was classified Base64
C22_Witness ==
  /\ call.fn = "detectInputType"
  /\ ret.st = "ok"
  /\ LooksHex(NonBlank(call.input))
  /\ LooksBase64(NonBlank(call.input))
  /\ Escapes(call.input) = 0
  /\ ret.v.type = "Base64"

\* C23: clearing the recipe, a successful load, an edit of the input, clearing
\* the input, a paste into the input and clearing the output each leave the
\* step cursor at 0.
C23_ResetEvents ==
  [][(\/ ClearRecipe
      \/ \E data \in LoadPool : LoadRecipe(data) /\ last'.st = "ok"
      \/ \E text \in InputPool : InputEdited(text)
      \/ ClearInput
      \/ \E text \in InputPool : PasteInput(text)
      \/ ClearOutput) => currentStepIndex' = 0]_vars

\* C24: every step of the recipe names an operation of the registry, and no
\* run of the recipe fails with the unknown-operation error.
C24_StepsResolve ==
  /\ \A k \in 1..Len(recipe) : recipe[k].op \in OwnKeys
  /\ (last.ev = "bake" /\ last.st = "failed") =>
       \A key \in Keys : last.failMsg # UnknownMessage(key)
  /\ (last.ev = "step" /\ last.st = "failed") =>
       \A key \in Keys : last.error # UnknownMessage(key)

\* C25: the step cursor is at least 0 and at most the length of the recipe.
C25_CursorInRange == 0 <= currentStepIndex /\ currentStepIndex <= Len(recipe)

\* C26: once a step has run after the end of the run that scheduled the
\* delayed reset (the cursor is above 0 and a step has succeeded since that
\* end), the timer of the earlier run does not bring the cursor back to 0.
C26_NoStaleTimer ==
  [][(currentStepIndex > 0 /\ ~afterEnd /\ currentStepIndex' = 0) => ~TimerFires]_vars

\* C27: between two steps of a single-step run (the cursor is above 0, below
\* the length of the recipe, and stays where it is) no event changes the
\* running value, the output field, which the next step reads as its input.
C27_OwnAccumulator ==
  [][(/\ currentStepIndex > 0
      /\ currentStepIndex < Len(recipe)
      /\ currentStepIndex' = currentStepIndex
      /\ Len(recipe') > currentStepIndex) => outputVal' = outputVal]_vars

Without(s, k) == [i \in 1..(Len(s) - 1) |-> IF i < k THEN s[i] ELSE s[i + 1]]

\* how many times x occurs in s
Occurrences(s, x) == Cardinality({i \in 1..Len(s) : s[i] = x})

\* C29: moveOperation(from, to) with both indices in range and different
\* keeps the length and the multiset of the steps, puts the step of index
\* from at index to and keeps the order of the others; with an index out of
\* range (a value that is no index of the recipe) or from = to the recipe is
\* unchanged; the cursor is never changed.
C29_MoveIsPermutation ==
  [][\A data \in DropData : \A toIndex \in 0..(MaxMoveLen - 1) :
       Drop(data, toIndex) =>
         LET from == ParseInt(Str(data)) IN
         /\ currentStepIndex' = currentStepIndex
         /\ IF /\ ~from.nan /\ from.n >= 0 /\ from.n < Len(recipe)
               /\ toIndex >= 0 /\ toIndex < Len(recipe)
               /\ from.n # toIndex
              THEN /\ Len(recipe') = Len(recipe)
                   /\ \A x \in MoveSteps : Occurrences(recipe', x) = Occurrences(recipe, x)
                   /\ recipe'[toIndex + 1] = recipe[from.n + 1]
                   /\ Without(recipe', toIndex + 1) = Without(recipe, from.n + 1)
              ELSE recipe' = recipe]_vars

\* C30: a run-to-completion that ends has executed the steps of the recipe as
\* it stood when the run started (all of them when it succeeds, those before
\* the failing one when it fails), and its output is that recipe applied to
\* its input, whatever was done to the recipe while the run was suspended.
C30_RunsOriginalRecipe ==
  (last.ev = "bake" /\ last.st \in {"done", "failed"}) =>
    /\ Len(last.log) <= Len(last.started)
    /\ \A j \in 1..Len(last.log) :
         /\ last.log[j].op = last.started[j].op
         /\ last.log[j].params = last.started[j].params
    /\ last.st = "done" =>
         /\ Len(last.log) = Len(last.started)
         /\ RefFold(last.started, last.first, 1, Len(last.started))
              = [step |-> 0, v |-> outputVal, msg |-> <<>>]
    /\ last.st = "failed" =>
         /\ last.failStep = Len(last.log) + 1
         /\ last.failStep <= Len(last.started)
====
